---- MODULE Spec2Model ----
\* A model of the wretched view toolkit: the View sizing/render wrappers
\* (View.ts), Collapsible, Text and Dropdown, as state machines over a small
\* view tree.
EXTENDS Integers, Sequences, FiniteSets, TLC

VARIABLES
  parent,               \* View.parent                      (view -> view, 0 = null)
  props,                \* View #x #y #width ... #padding, #screen (view -> record)
  prevSizeCache,        \* View.#prevSizeCache               (view -> (key -> Size))
  viewportContentSize,  \* View.#viewportContentSize         (view -> Size)
  renderedContentSize,  \* View.#renderedContentSize         (view -> Size)
  invalidateParent,     \* View.#invalidateParent            (view -> BOOLEAN)
  text,                 \* Text.#text                        (Text view -> string)
  font,                 \* Text.#font
  lines,                \* Text.#lines                       (seq of <<line, width>>)
  wrap,                 \* Text.#wrap
  isCollapsed,          \* Collapsible.#isCollapsed
  isPressed,            \* Collapsible.#isPressed
  isHover,              \* Collapsible.#isHover
  title,                \* Dropdown.#title
  multiple,             \* Dropdown.#multiple / DropdownSelector.#multiple
  showModal,            \* Dropdown.#showModal
  isHoverDropdown,      \* Dropdown.#isHover
  choices,              \* DropdownSelector.#choices         (seq of [lines, value])
  selected,             \* DropdownSelector.#selected        (insertion-ordered set)
  isChecked,            \* DropdownSelector.#checkbox.isChecked
  last,                 \* the operation performed last and what it returned
  sections,             \* Accordion.sections                (seq of sections, insertion order)
  accordionMultiple,    \* Accordion.#multiple
  accordionCache,       \* the Accordion's View.#prevSizeCache
  isOpen,               \* AccordionSection.#isOpen          (section -> BOOLEAN)
  onClick,              \* AccordionSection.onClick          (section -> whose callback)
  currentViewHeight,    \* AccordionSection.#currentViewHeight, in 1/TickDivisor rows
  actualViewHeight,     \* AccordionSection.#actualViewHeight
  sectionCache,         \* the sections' View.#prevSizeCache  (section -> (key -> Size))
  sectionRect,          \* the Rect the Accordion's last render gave each section
  tickRegistered,       \* the sections whose last render called viewport.registerTick()
  needsRender,          \* the screen has a frame to render
  frameSize,            \* the content size of the Accordion's viewport
  accordionContentSize, \* the Accordion's View.#viewportContentSize
  propsOnClick,         \* whether the section's props supplied an onClick
  toggles,              \* how many times a section or the Accordion was changed from outside
  titleText             \* AccordionSection.#titleView's #text (section -> string)

viewVars == <<parent, props, prevSizeCache, viewportContentSize,
              renderedContentSize, invalidateParent>>
textVars == <<text, font, lines, wrap>>
collapsibleVars == <<isCollapsed, isPressed, isHover>>
dropdownVars == <<title, multiple, showModal, isHoverDropdown, choices, selected,
                  isChecked>>
accordionVars == <<sections, accordionMultiple, accordionCache, isOpen, onClick,
                   currentViewHeight, actualViewHeight, sectionCache, sectionRect,
                   tickRegistered, needsRender, frameSize, accordionContentSize,
                   propsOnClick, toggles, titleText>>
vars == <<viewVars, textVars, collapsibleVars, dropdownVars, last, accordionVars>>

-----------------------------------------------------------------------------
\* Bounds of the model.

\* available widths are 0..MaxW
MaxW == 2
\* available heights are 0..MaxH
MaxH == 1
\* x / y offsets are 0..MaxOffset
MaxOffset == 1
\* naturalSize is called on a view while its cache holds at most this many entries
MaxCached == 2
\* the explicit numeric width of a view
BigDim == 3
\* the explicit numeric height of a view
BigDimH == 2
\* a minWidth / minHeight
LowBound == 2
\* a maxWidth / maxHeight (below LowBound: min > max happens)
HighBound == 1
\* a padding
PadAmount == 1

-----------------------------------------------------------------------------
\* Values.

Max(a, b) == IF a >= b THEN a ELSE b
Min(a, b) == IF a <= b THEN a ELSE b

\* An optional or tagged property value: undefined, a number, 'fill', 'natural'.
Unset == [kind |-> "undefined", n |-> 0]
Fill == [kind |-> "fill", n |-> 0]
Natural == [kind |-> "natural", n |-> 0]
Num(n) == [kind |-> "number", n |-> n]
\* #screen: Screen | null = null
NoScreen == 0

IsDefined(p) == p.kind # "undefined"
\* JavaScript truthiness of an optional number (`if (this.#x)`).
Truthy(p) == p.kind = "number" /\ p.n # 0
\* `p ?? 0`
OrZero(p) == IF p.kind = "number" THEN p.n ELSE 0

\* geometry.Size: non-negative width and height.
Size(w, h) == [width |-> Max(0, w), height |-> Max(0, h)]
SizeZero == Size(0, 0)
\* A mutable copy of a Size after arithmetic on its fields: not normalised.
MutableSize(w, h) == [width |-> w, height |-> h]
Grow(s, w, h) == Size(s.width + w, s.height + h)
Shrink(s, w, h) == Size(s.width - w, s.height - h)

\* function cacheKey(size): `${size.width}x${size.height}`, one key per pair.
cacheKey(size) == <<size.width, size.height>>

EmptyCache == [k \in {} |-> SizeZero]
CachePut(c, k, s) == [kk \in (DOMAIN c) \cup {k} |-> IF kk = k THEN s ELSE c[kk]]

\* toEdges(padding)
toEdges(padding) ==
  IF ~Truthy(padding)
    THEN [set |-> FALSE, top |-> 0, right |-> 0, bottom |-> 0, left |-> 0]
    ELSE [set |-> TRUE, top |-> padding.n, right |-> padding.n,
          bottom |-> padding.n, left |-> padding.n]

-----------------------------------------------------------------------------
\* Strings are sequences of characters.

NL == "\n"

\* Inline style-escape tokens: printableChars yields a whole SGR escape
\* sequence as one unit.
SgrRed == "<sgr-red>"
SgrBold == "<sgr-bold>"
StyleTokens == {SgrRed, SgrBold}

WideChar == "<wide>"

\* unicode.charWidth: the columns a character takes; an escape sequence
\* takes none, a wide character two.
CharWidth(c) ==
  IF c = NL \/ c \in StyleTokens THEN 0 ELSE IF c = WideChar THEN 2 ELSE 1

RECURSIVE lineWidth(_)
\* unicode.lineWidth(line)
lineWidth(line) ==
  IF line = <<>> THEN 0 ELSE CharWidth(Head(line)) + lineWidth(Tail(line))

RECURSIVE SplitFrom(_, _)
SplitFrom(s, cur) ==
  IF s = <<>> THEN <<cur>>
  ELSE IF Head(s) = NL THEN <<cur>> \o SplitFrom(Tail(s), <<>>)
  ELSE SplitFrom(Tail(s), Append(cur, Head(s)))

\* String.prototype.split('\n'): "" splits into [""].
Split(s) == SplitFrom(s, <<>>)

RECURSIVE Join(_, _)
\* Array.prototype.join(sep)
Join(ls, sep) ==
  IF ls = <<>> THEN <<>>
  ELSE IF Len(ls) = 1 THEN ls[1]
  ELSE ls[1] \o sep \o Join(Tail(ls), sep)

RECURSIVE MaxLineWidth(_)
MaxLineWidth(ls) ==
  IF ls = <<>> THEN 0 ELSE Max(lineWidth(Head(ls)), MaxLineWidth(Tail(ls)))

\* unicode.stringSize(lines): widest line by number of lines.
stringSize(ls) == Size(MaxLineWidth(ls), Len(ls))

-----------------------------------------------------------------------------
\* The view tree: a Collapsible (1) holding a Collapsible (2) and a Text (3);
\* the inner Collapsible holds a Text (4) and a Dropdown (5).

Views == 1..5
CollapsibleViews == {1, 2}
TextViews == {3, 4}
DropdownViews == {5}

\* Collapsible constructor: #collapsedView, #expandedView, add(...) of both.
collapsedView == [v \in CollapsibleViews |-> IF v = 1 THEN 2 ELSE 4]
expandedView == [v \in CollapsibleViews |-> IF v = 1 THEN 3 ELSE 5]
TreeParent == [v \in Views |-> CASE v = 1 -> 0 [] v \in {2, 3} -> 1 [] OTHER -> 2]

RECURSIVE Ancestors(_)
\* The parent chain of a view, the view excluded.
Ancestors(v) ==
  IF parent[v] = 0 THEN {} ELSE {parent[v]} \cup Ancestors(parent[v])

Root == CHOOSE v \in Views : TreeParent[v] = 0

-----------------------------------------------------------------------------
\* View: the naturalSize wrapper.

ToDimensionClipped(dim, available, natural) ==
  IF dim.kind = "fill" THEN available
  ELSE IF dim.kind = "natural" THEN natural
  ELSE Min(dim.n, available)

\* View.#toDimension(dim, available, natural)
ToDimension(dim, available, natural) ==
  IF dim.kind = "fill" THEN available
  ELSE IF dim.kind = "natural" THEN natural
  ELSE dim.n

ClampDimMaxFirst(minB, maxB, n) ==
  LET a == IF IsDefined(maxB) THEN Min(maxB.n, n) ELSE n
  IN IF IsDefined(minB) THEN Max(minB.n, a) ELSE a

\* View.#restrictSize, an unset dimension: Math.max(min, .) then Math.min(max, .)
ClampDim(minB, maxB, n) ==
  LET a == IF IsDefined(minB) THEN Max(minB.n, n) ELSE n
  IN IF IsDefined(maxB) THEN Min(maxB.n, a) ELSE a

\* Whether View.#restrictSize evaluates its calcSize thunk.
NeedsCalc(p, prefer) ==
  \/ p.width.kind = "natural"
  \/ p.height.kind = "natural"
  \/ prefer = "shrink" /\ ~(IsDefined(p.width) /\ IsDefined(p.height))

\* View.#restrictSize(_calcSize, availableSize, prefer); calc is the value of
\* the memoised thunk.
RestrictSize(p, calc, availableSize, prefer) ==
  IF IsDefined(p.width) /\ IsDefined(p.height)
    THEN Size(ToDimension(p.width, availableSize.width, calc.width),
              ToDimension(p.height, availableSize.height, calc.height))
    ELSE LET size == IF prefer = "shrink" THEN calc ELSE availableSize
         IN MutableSize(
              IF IsDefined(p.width)
                THEN ToDimension(p.width, availableSize.width, calc.width)
                ELSE ClampDim(p.minWidth, p.maxWidth, size.width),
              IF IsDefined(p.height)
                THEN ToDimension(p.height, availableSize.height, calc.height)
                ELSE ClampDim(p.minHeight, p.maxHeight, size.height))

\* View.#naturalSizeWrap: `if (this.#x || this.#y) availableSize = availableSize.shrink(...)`
ShrinkByOffset(p, availableSize) ==
  IF Truthy(p.x) \/ Truthy(p.y)
    THEN Shrink(availableSize, OrZero(p.x), OrZero(p.y))
    ELSE availableSize

\* View.#naturalSizeWrap: the subclass size grown by the padding.
GrowByPadding(p, size) ==
  LET e == toEdges(p.padding)
  IN IF e.set THEN Grow(size, e.left + e.right, e.top + e.bottom) ELSE size

\* View.#naturalSizeWrap: `size.width += this.#x; size.height += this.#y`
AddOffset(p, size) ==
  MutableSize(IF Truthy(p.x) THEN size.width + p.x.n ELSE size.width,
              IF Truthy(p.y) THEN size.height + p.y.n ELSE size.height)

CachedSizeBeforeOffset(p, resolved) == resolved

\* View.#naturalSizeWrap: the Size stored in the cache and returned.
CachedSize(p, resolved) == AddOffset(p, resolved)

\* `~~(a / b)`: the quotient truncated toward zero; a / 0 is infinite or NaN
\* and truncates to 0.
TruncDiv(a, b) ==
  IF b = 0 THEN 0
  ELSE IF (a >= 0) = (b > 0) THEN (IF a >= 0 THEN a ELSE -a) \div (IF b > 0 THEN b ELSE -b)
  ELSE -((IF a >= 0 THEN a ELSE -a) \div (IF b > 0 THEN b ELSE -b))

RECURSIVE TextReduce(_, _, _, _)
TextReduce(ls, w, available, size) ==
  IF ls = <<>> THEN size
  ELSE LET width == Head(ls)[2]
           next == IF w
                     THEN MutableSize(available.width,
                                      size.height + 1 + TruncDiv(width, available.width))
                     ELSE MutableSize(Max(size.width, width), size.height + 1)
       IN TextReduce(Tail(ls), w, available, next)

\* Text.naturalSize(available)
TextNaturalSize(v, available) == TextReduce(lines[v], wrap[v], available, SizeZero)

-----------------------------------------------------------------------------
\* DropdownSelector and Dropdown: what the title shows.

RECURSIVE Digits(_)
\* String(n) for n >= 0, as a sequence of digits.
Digits(n) == IF n < 10 THEN <<n>> ELSE Append(Digits(n \div 10), n % 10)

RECURSIVE LexLess(_, _)
\* a < b for strings, by code unit.
LexLess(a, b) ==
  IF b = <<>> THEN FALSE
  ELSE IF a = <<>> THEN TRUE
  ELSE IF Head(a) # Head(b) THEN Head(a) < Head(b)
  ELSE LexLess(Tail(a), Tail(b))

RECURSIVE InsertSorted(_, _)
InsertSorted(sorted, n) ==
  IF sorted = <<>> THEN <<n>>
  ELSE IF LexLess(Digits(n), Digits(Head(sorted))) THEN <<n>> \o sorted
  ELSE <<Head(sorted)>> \o InsertSorted(Tail(sorted), n)

RECURSIVE SortDefault(_)
\* Array.prototype.sort() without a comparator: by the elements' strings.
SortDefault(rows) ==
  IF rows = <<>> THEN <<>>
  ELSE InsertSorted(SortDefault(SubSeq(rows, 1, Len(rows) - 1)), rows[Len(rows)])

\* `new Set(array)`: the elements in order of first occurrence.
RECURSIVE ToSet(_)
ToSet(rows) ==
  IF rows = <<>> THEN <<>>
  ELSE LET init == ToSet(SubSeq(rows, 1, Len(rows) - 1))
           x == rows[Len(rows)]
       IN IF \E i \in 1..Len(init) : init[i] = x THEN init ELSE Append(init, x)

\* choices.map(([text, value]) => [text.split('\n'), value])
SplitChoices(cs) ==
  [i \in 1..Len(cs) |-> [lines |-> Split(cs[i].text), value |-> cs[i].value]]

\* DropdownSelector.selectedValues, for the choices cs and selected rows sel
SelectedValuesOf(cs, sel) == [i \in 1..Len(sel) |-> cs[sel[i] + 1].value]

\* DropdownSelector.selectedValues
selectedValues == SelectedValuesOf(choices, selected)

\* DropdownSelector.selectedValue
selectedValue ==
  IF Len(selected) = 0 THEN [defined |-> FALSE, value |-> 0]
  ELSE [defined |-> TRUE, value |-> choices[selected[1] + 1].value]

\* DropdownSelector.selectedText, for the choices cs and selected rows sel
SelectedTextOf(cs, sel) ==
  IF Len(sel) = 0 THEN [defined |-> FALSE, lines |-> <<>>]
  ELSE IF Len(sel) > 1
    THEN LET rows == SortDefault(sel)
         IN [defined |-> TRUE,
             lines |-> <<Join([i \in 1..Len(rows) |->
                                Join(cs[rows[i] + 1].lines, <<" ">>)],
                              <<",", " ">>)>>]
  ELSE [defined |-> TRUE, lines |-> cs[sel[1] + 1].lines]

\* DropdownSelector.selectedText
selectedText == SelectedTextOf(choices, selected)

SelectPlaceholder == <<"<", "s", "e", "l", "e", "c", "t", ">">>

\* Dropdown.#titleLines(), for the title t, choices cs and selected rows sel
TitleLinesOf(t, cs, sel) ==
  IF t.defined /\ Len(SelectedValuesOf(cs, sel)) = 0 THEN t.lines
  ELSE IF SelectedTextOf(cs, sel).defined THEN SelectedTextOf(cs, sel).lines
  ELSE <<SelectPlaceholder>>

\* Dropdown.#titleLines()
titleLines == TitleLinesOf(title, choices, selected)

\* Dropdown.naturalSize()
DropdownNaturalSize == Grow(stringSize(titleLines), 5, 0)

\* DropdownSelector.#isAllSelected()
isAllSelected == Len(selected) = Len(choices)

\* function dropdownSelectedRows(selected, choices, multiple); `sel` is the
\* sequence of the values asked for (in single mode: none or one).
RECURSIVE FindIndex(_, _, _)
FindIndex(cs, item, i) ==
  IF i > Len(cs) THEN -1
  ELSE IF cs[i].value = item THEN i - 1
  ELSE FindIndex(cs, item, i + 1)

RECURSIVE FlatMapIndex(_, _)
\* items.flatMap(item => { index = choices.findIndex(...); index === -1 ? [] : [index] })
FlatMapIndex(items, cs) ==
  IF items = <<>> THEN <<>>
  ELSE LET index == FindIndex(cs, Head(items), 1)
       IN (IF index = -1 THEN <<>> ELSE <<index>>) \o FlatMapIndex(Tail(items), cs)

dropdownSelectedRows(sel, cs, mult) ==
  IF mult THEN FlatMapIndex(sel, cs)
  ELSE IF sel # <<>> THEN FlatMapIndex(<<sel[1]>>, cs)
  ELSE <<>>

-----------------------------------------------------------------------------
\* naturalSize through the tree.

RECURSIVE NaturalSizeWrap(_, _, _)
RECURSIVE SubclassNaturalSize(_, _, _)

\* The subclass naturalSize(availableSize) of view v, with the caches c:
\* the size and the caches afterwards.
SubclassNaturalSize(c, v, availableSize) ==
  IF v \in TextViews
    THEN [size |-> TextNaturalSize(v, availableSize), cache |-> c]
  ELSE IF v \in DropdownViews
    THEN [size |-> DropdownNaturalSize, cache |-> c]
  ELSE \* Collapsible.naturalSize
    LET child == IF isCollapsed[v] THEN collapsedView[v] ELSE expandedView[v]
        r == NaturalSizeWrap(c, child, availableSize)
    IN [size |-> Grow(r.size, 2, 0), cache |-> r.cache]

\* View.#naturalSizeWrap: the wrapped naturalSize(availableSize) of view v.
NaturalSizeWrap(c, v, availableSize) ==
  IF cacheKey(availableSize) \in DOMAIN c[v]
    THEN [size |-> c[v][cacheKey(availableSize)], cache |-> c, hit |-> TRUE,
          resolved |-> SizeZero]
    ELSE LET p == props[v]
             shrunk == ShrinkByOffset(p, availableSize)
             sub == SubclassNaturalSize(c, v, shrunk)
             calc == GrowByPadding(p, sub.size)
             resolved == RestrictSize(p, calc, shrunk, "shrink")
             size == CachedSize(p, resolved)
             c1 == IF NeedsCalc(p, "shrink") THEN sub.cache ELSE c
         IN [size |-> AddOffset(p, resolved),
             cache |-> [c1 EXCEPT ![v] = CachePut(c1[v], cacheKey(shrunk), size)],
             hit |-> FALSE,
             resolved |-> resolved]

InvalidateSizeSelfOnly(c, ip, v) == [c EXCEPT ![v] = EmptyCache]

RECURSIVE InvalidateSize(_, _, _)
\* View.invalidateSize(): the caches afterwards, under the gates ip.
InvalidateSize(c, ip, v) ==
  LET c1 == [c EXCEPT ![v] = EmptyCache]
  IN IF ip[v] /\ parent[v] # 0 THEN InvalidateSize(c1, ip, parent[v]) ELSE c1

-----------------------------------------------------------------------------
\* View: the render wrapper.

GateLeftOpen(ip, v) == ip

\* View.#renderWrap: `this.#invalidateParent = false` around the self-invalidation.
SuppressGate(ip, v) == [ip EXCEPT ![v] = FALSE]

\* View.#renderWrap: `this.#invalidateParent = true` after it.
RestoreGate(ip, v) == [ip EXCEPT ![v] = TRUE]

\* View.#renderWrap: whether the viewport's content size differs from the recorded one.
ContentSizeChanged(recorded, contentSize) ==
  recorded.width # contentSize.width \/ recorded.height # contentSize.height

\* View.#renderWrap: the content size left after the offset and the padding.
RenderContentSize(p, contentSize) ==
  LET e == toEdges(p.padding)
      offX == IF Truthy(p.x) \/ Truthy(p.y) THEN OrZero(p.x) ELSE 0
      offY == IF Truthy(p.x) \/ Truthy(p.y) THEN OrZero(p.y) ELSE 0
      padW == IF e.set THEN e.left + e.right ELSE 0
      padH == IF e.set THEN e.top + e.bottom ELSE 0
  IN MutableSize(contentSize.width - offX - padW, contentSize.height - offY - padH)

\* new Rect(origin, size).size
RectSize(size) == Size(size.width, size.height)

RECURSIVE RenderWrap(_, _, _)
RECURSIVE SubclassRender(_, _, _)

\* The subclass render(viewport) of view v, the viewport's content size given;
\* st holds the caches, recorded sizes and gates of all views.
SubclassRender(st, v, contentSize) ==
  IF v \in CollapsibleViews
    THEN \* Collapsible.render
      LET inner == Shrink(contentSize, 2, 0)
          child == IF isCollapsed[v] THEN collapsedView[v] ELSE expandedView[v]
          r == NaturalSizeWrap(st.cache, child, inner)
      IN RenderWrap([st EXCEPT !.cache = r.cache], child, RectSize(r.size))
    ELSE st  \* Text.render, Dropdown.render: writes to the viewport only

\* View.#renderWrap: the wrapped render(viewport) of view v.
RenderWrap(st, v, contentSize) ==
  LET p == props[v]
      changed == ContentSizeChanged(st.vcs[v], contentSize)
      cleared == IF changed
                   THEN InvalidateSize(st.cache, SuppressGate(st.ip, v), v)
                   ELSE st.cache
      ip1 == IF changed THEN RestoreGate(SuppressGate(st.ip, v), v) ELSE st.ip
      inner == RenderContentSize(p, contentSize)
      nat == NaturalSizeWrap(cleared, v, inner)
      rendered == RestrictSize(p, nat.size, inner, "grow")
      st1 == [cache |-> IF NeedsCalc(p, "grow") THEN nat.cache ELSE cleared,
              vcs |-> [st.vcs EXCEPT ![v] = contentSize],
              rcs |-> [st.rcs EXCEPT ![v] = rendered],
              ip |-> ip1]
  IN SubclassRender(st1, v, RectSize(rendered))

-----------------------------------------------------------------------------
\* Text: the setters.

Fonts == {"default", "script"}
\* FONTS[font].get(c) ?? c
FontChar(f, c) == IF f = "script" /\ c = "a" THEN "A" ELSE c

updateLinesNoEmptyCase(t, ls, f) ==
  LET newLines == IF t.defined THEN Split(t.val)
                  ELSE IF ls.defined THEN ls.val
                  ELSE <<>>
  IN [text |-> IF t.defined THEN t.val ELSE <<>>, font |-> f,
      lines |-> [i \in 1..Len(newLines) |-> <<newLines[i], lineWidth(newLines[i])>>]]

\* Text.#updateLines(text, lines, font): the new #text, #font and #lines.
\* text and lines are optional ([defined, val]); font is a font name.
updateLines(t, ls, f) ==
  LET newText == IF t.defined THEN t.val
                 ELSE IF ls.defined THEN Join(ls.val, <<NL>>)
                 ELSE <<>>
      newLines == IF t.defined THEN (IF t.val = <<>> THEN <<>> ELSE Split(t.val))
                  ELSE IF ls.defined THEN ls.val
                  ELSE <<>>
      mapped(line) == IF f # "default"
                        THEN [i \in 1..Len(line) |-> FontChar(f, line[i])]
                        ELSE line
  IN [text |-> newText, font |-> f,
      lines |-> [i \in 1..Len(newLines) |->
                   <<mapped(newLines[i]), lineWidth(mapped(newLines[i]))>>]]

Some(x) == [defined |-> TRUE, val |-> x]
None == [defined |-> FALSE, val |-> <<>>]

-----------------------------------------------------------------------------
\* Inputs.

\* The available sizes asked for: every width at the full height, every height
\* at the full width.
AvailableSizes ==
  {Size(w, MaxH) : w \in 0..MaxW} \cup {Size(MaxW, h) : h \in 0..MaxH}

DefaultProps ==
  [x |-> Unset, y |-> Unset, width |-> Unset, height |-> Unset,
   minWidth |-> Unset, minHeight |-> Unset, maxWidth |-> Unset,
   maxHeight |-> Unset, padding |-> Unset, theme |-> Unset,
   screen |-> NoScreen]

TextEmpty == <<>>
TextShort == <<"a", "b">>
TextLong == <<"a", "b", "c", NL, "d">>
Texts == {TextEmpty, TextShort, TextLong}

\* The record of the last operation: the view and available size it was called
\* with, what naturalSize returned (size, resolved, hit), whether the operation
\* changed the value it compares (changed), and which views among the view and
\* its ancestors held cached sizes before it (cachedBefore). For the Dropdown's
\* operations, changed tells whether the title lines it displays changed.
NoCall == [op |-> "none", view |-> 0, avail |-> SizeZero, size |-> SizeZero,
           resolved |-> SizeZero, hit |-> FALSE, changed |-> FALSE,
           cachedBefore |-> {}, modal |-> FALSE, calls |-> <<>>, event |-> "none",
           row |-> -1]

CachedOnChain(v) ==
  {a \in {v} \cup Ancestors(v) : prevSizeCache[a] # EmptyCache}

-----------------------------------------------------------------------------
\* Operations.

\* A call of view.naturalSize(availableSize).
NaturalSize(v, availableSize) ==
  /\ UNCHANGED accordionVars
  /\ Cardinality(DOMAIN prevSizeCache[v]) <= MaxCached
  /\ LET r == NaturalSizeWrap(prevSizeCache, v, availableSize)
     IN /\ prevSizeCache' = r.cache
        /\ last' = [NoCall EXCEPT !.op = "naturalSize", !.view = v,
                                  !.avail = availableSize, !.size = r.size,
                                  !.resolved = r.resolved, !.hit = r.hit]
  /\ UNCHANGED <<parent, props, viewportContentSize, renderedContentSize,
                 invalidateParent, textVars, collapsibleVars, dropdownVars>>

\* A call of view.invalidateSize() from an event handler, tick or setter.
CallInvalidateSize(v) ==
  /\ UNCHANGED accordionVars
  /\ prevSizeCache' = InvalidateSize(prevSizeCache, invalidateParent, v)
  /\ last' = [NoCall EXCEPT !.op = "invalidateSize", !.view = v,
                            !.cachedBefore = CachedOnChain(v)]
  /\ UNCHANGED <<parent, props, viewportContentSize, renderedContentSize,
                 invalidateParent, textVars, collapsibleVars, dropdownVars>>

RECURSIVE RendersDropdown(_)
\* Whether the render of view v reaches Dropdown.render.
RendersDropdown(v) ==
  \/ v \in DropdownViews
  \/ /\ v \in CollapsibleViews
     /\ RendersDropdown(IF isCollapsed[v] THEN collapsedView[v] ELSE expandedView[v])

\* A call of view.render(viewport), the viewport's content size given.
Render(v, contentSize) ==
  /\ UNCHANGED accordionVars
  /\ LET st == RenderWrap([cache |-> prevSizeCache, vcs |-> viewportContentSize,
                           rcs |-> renderedContentSize, ip |-> invalidateParent],
                          v, contentSize)
     IN /\ prevSizeCache' = st.cache
        /\ viewportContentSize' = st.vcs
        /\ renderedContentSize' = st.rcs
        /\ invalidateParent' = st.ip
  /\ last' = [NoCall EXCEPT !.op = "render", !.view = v, !.avail = contentSize,
                            !.changed = ContentSizeChanged(viewportContentSize[v],
                                                           contentSize),
                            !.cachedBefore = CachedOnChain(v),
                            !.modal = (RendersDropdown(v) /\ showModal)]
  /\ UNCHANGED <<parent, props, textVars, collapsibleVars, dropdownVars>>

\* Text: `text.text = value`
SetText(v, value) ==
  /\ UNCHANGED accordionVars
  /\ IF text[v] = value
       THEN UNCHANGED <<text, font, lines, prevSizeCache>>
       ELSE LET u == updateLines(Some(value), Some(Split(value)), font[v])
            IN /\ text' = [text EXCEPT ![v] = u.text]
               /\ font' = [font EXCEPT ![v] = u.font]
               /\ lines' = [lines EXCEPT ![v] = u.lines]
               /\ prevSizeCache' = InvalidateSize(prevSizeCache, invalidateParent, v)
  /\ last' = [NoCall EXCEPT !.op = "text=", !.view = v,
                            !.changed = (text[v] # value),
                            !.cachedBefore = CachedOnChain(v)]
  /\ UNCHANGED <<parent, props, viewportContentSize, renderedContentSize,
                 invalidateParent, wrap, collapsibleVars, dropdownVars>>

\* Text: `text.font = value`
SetFont(v, value) ==
  /\ UNCHANGED accordionVars
  /\ IF font[v] = value
       THEN UNCHANGED <<text, font, lines, prevSizeCache>>
       ELSE LET u == updateLines(Some(text[v]), None, value)
            IN /\ text' = [text EXCEPT ![v] = u.text]
               /\ font' = [font EXCEPT ![v] = u.font]
               /\ lines' = [lines EXCEPT ![v] = u.lines]
               /\ prevSizeCache' = InvalidateSize(prevSizeCache, invalidateParent, v)
  /\ last' = [NoCall EXCEPT !.op = "font=", !.view = v,
                            !.changed = (font[v] # value),
                            !.cachedBefore = CachedOnChain(v)]
  /\ UNCHANGED <<parent, props, viewportContentSize, renderedContentSize,
                 invalidateParent, wrap, collapsibleVars, dropdownVars>>

\* The props Text.update is called with: text, lines, wrap and font are
\* optional ([defined, val]); Props carries text or lines, never both.
TextLinesAB == <<<<"a">>, <<"b", "c">>>>
TextPropsChoices ==
  {p \in [text : {None} \cup {Some(t) : t \in Texts},
          lines : {None, Some(TextLinesAB)},
          wrap : {None, Some(TRUE), Some(FALSE)},
          font : {None} \cup {Some(f) : f \in Fonts}] :
     ~(p.text.defined /\ p.lines.defined)}

\* Text.update(props), through #update: #wrap = wrap ?? false, then
\* #updateLines(text, lines, font) with its invalidateSize(). The call of
\* super.update(props) that follows reaches no method of View.
TextUpdate(v, p) ==
  /\ UNCHANGED accordionVars
  /\ LET u == updateLines(p.text, p.lines,
                          IF p.font.defined THEN p.font.val ELSE "default")
     IN /\ wrap' = [wrap EXCEPT ![v] = IF p.wrap.defined THEN p.wrap.val ELSE FALSE]
        /\ text' = [text EXCEPT ![v] = u.text]
        /\ font' = [font EXCEPT ![v] = u.font]
        /\ lines' = [lines EXCEPT ![v] = u.lines]
        /\ prevSizeCache' = InvalidateSize(prevSizeCache, invalidateParent, v)
  /\ last' = [NoCall EXCEPT !.op = "update", !.view = v,
                            !.cachedBefore = CachedOnChain(v)]
  /\ UNCHANGED <<parent, props, viewportContentSize, renderedContentSize,
                 invalidateParent, collapsibleVars, dropdownVars>>

\* events: the kinds of mouse event a view receives. A click is a release over
\* the view that received the press.
MouseEvents == {"press", "click", "release", "enter", "exit", "move"}
isMousePressed(event) == event = "press"
isMouseReleased(event) == event \in {"click", "release"}
isMouseClicked(event) == event = "click"
isMouseEnter(event) == event = "enter"
isMouseExit(event) == event = "exit"

\* Collapsible.receiveMouse(event)
CollapsibleReceiveMouse(v, event) ==
  LET toggled == ~isMousePressed(event) /\ isMouseReleased(event)
                   /\ isMouseClicked(event)
  IN /\ isPressed' = [isPressed EXCEPT ![v] =
                         IF isMousePressed(event) THEN TRUE
                         ELSE IF isMouseReleased(event) THEN FALSE
                         ELSE @]
     /\ isCollapsed' = [isCollapsed EXCEPT ![v] = IF toggled THEN ~@ ELSE @]
     /\ prevSizeCache' = IF toggled
                            THEN InvalidateSize(prevSizeCache, invalidateParent, v)
                            ELSE prevSizeCache
     /\ isHover' = [isHover EXCEPT ![v] =
                       IF isMouseEnter(event) THEN TRUE
                       ELSE IF isMouseExit(event) THEN FALSE
                       ELSE @]
     /\ last' = [NoCall EXCEPT !.op = "receiveMouse", !.view = v,
                               !.event = event,
                               !.changed = toggled,
                               !.cachedBefore = CachedOnChain(v)]
     /\ UNCHANGED <<parent, props, viewportContentSize, renderedContentSize,
                    invalidateParent, textVars, dropdownVars, accordionVars>>

TheDropdown == CHOOSE v \in DropdownViews : TRUE

DropdownOnSelectKeepsModal ==
  /\ showModal' = showModal
  /\ prevSizeCache' = InvalidateSize(prevSizeCache, invalidateParent, TheDropdown)

\* Dropdown.#onSelect(), the selector's state after the selection given: the
\* new #showModal and the caches after this.invalidateSize().
DropdownOnSelect ==
  /\ showModal' = IF multiple THEN showModal ELSE FALSE
  /\ prevSizeCache' = InvalidateSize(prevSizeCache, invalidateParent, TheDropdown)

\* A choice's value that is `undefined`.
UndefinedValue == 0

\* Dropdown.#onSelect(): the arguments of the calls of the onSelect callback
\* from the props, the selector's choices cs and selected rows sel given.
OnSelectCalls(mult, cs, sel) ==
  IF mult THEN <<SelectedValuesOf(cs, sel)>>
  ELSE IF Len(sel) = 0 \/ cs[sel[1] + 1].value = UndefinedValue THEN <<>>
  ELSE <<<<cs[sel[1] + 1].value>>>>

\* DropdownSelector.#cellButton(choice, row): the button's onClick
RowClick(row) ==
  /\ UNCHANGED accordionVars
  /\ row \in 0..(Len(choices) - 1)
  /\ LET sel == IF multiple
                  THEN IF \E i \in 1..Len(selected) : selected[i] = row
                         THEN SelectSeq(selected, LAMBDA r : r # row)
                         ELSE Append(selected, row)
                  ELSE <<row>>
     IN /\ selected' = sel
        /\ isChecked' = (Len(sel) = Len(choices))
        /\ last' = [NoCall EXCEPT !.op = "rowClick", !.view = TheDropdown, !.row = row,
                                  !.changed = (TitleLinesOf(title, choices, sel) # titleLines),
                                  !.cachedBefore = CachedOnChain(TheDropdown),
                                  !.calls = OnSelectCalls(multiple, choices, sel)]
  /\ DropdownOnSelect
  /\ UNCHANGED <<parent, props, viewportContentSize, renderedContentSize,
                 invalidateParent, textVars, collapsibleVars, title, multiple,
                 isHoverDropdown, choices>>

\* DropdownSelector constructor: the 'Select all' Checkbox's onCheck(value),
\* called when the user toggles the box (the box is shown in multiple mode).
CheckAll(value) ==
  /\ UNCHANGED accordionVars
  /\ multiple
  /\ value = ~isChecked
  /\ isChecked' = value
  /\ LET sel == IF value THEN [i \in 1..Len(choices) |-> i - 1] ELSE <<>>
     IN /\ selected' = sel
        /\ last' = [NoCall EXCEPT !.op = "checkAll", !.view = TheDropdown,
                                  !.changed = (TitleLinesOf(title, choices, sel) # titleLines),
                                  !.cachedBefore = CachedOnChain(TheDropdown),
                                  !.calls = OnSelectCalls(multiple, choices, sel)]
  /\ DropdownOnSelect
  /\ UNCHANGED <<parent, props, viewportContentSize, renderedContentSize,
                 invalidateParent, textVars, collapsibleVars, title, multiple,
                 isHoverDropdown, choices>>

\* DropdownSelector.choices (getter): [lines.join('\n'), choice]
choicesGetter ==
  [i \in 1..Len(choices) |->
     [text |-> Join(choices[i].lines, <<NL>>), value |-> choices[i].value]]

\* The values of the choices are 1..MaxValue.
MaxValue == 3

Values == 1..MaxValue
\* What `selected` is assigned: one value or undefined in single mode, an
\* array of values in multiple mode.
SelectedInputs(mult) ==
  {<<>>} \cup {<<a>> : a \in Values}
    \cup (IF mult THEN {<<a, b>> : a \in Values, b \in Values} ELSE {})

\* Dropdown: `dropdown.selected = sel`, through DropdownSelector.selectedRows
SetSelected(sel) ==
  /\ UNCHANGED accordionVars
  /\ sel \in SelectedInputs(multiple)
  /\ LET rows == ToSet(dropdownSelectedRows(sel, choicesGetter, multiple))
     IN /\ selected' = rows
        /\ last' = [NoCall EXCEPT !.op = "selected=", !.view = TheDropdown,
                                  !.changed = (TitleLinesOf(title, choices, rows) # titleLines),
                                  !.cachedBefore = CachedOnChain(TheDropdown)]
  /\ UNCHANGED <<viewVars, textVars, collapsibleVars, title, multiple, showModal,
                 isHoverDropdown, choices, isChecked>>

\* A setter that selects the first choice whenever something was selected.
ChoicesSetterFirstRow(items, cs) == IF items = <<>> THEN <<>> ELSE <<0>>

\* DropdownSelector.choices setter: the new #selected, the values selected
\* before and the new choices given.
ChoicesSetterRows(items, cs) == ToSet(FlatMapIndex(items, cs))

\* Dropdown: `dropdown.choices = cs`, through DropdownSelector.choices
SetChoices(cs) ==
  /\ UNCHANGED accordionVars
  /\ LET rows == ChoicesSetterRows(selectedValues, cs)
     IN /\ choices' = SplitChoices(cs)
        /\ selected' = rows
        /\ last' = [NoCall EXCEPT !.op = "choices=", !.view = TheDropdown,
                                  !.changed = (TitleLinesOf(title, SplitChoices(cs), rows)
                                                 # titleLines),
                                  !.cachedBefore = CachedOnChain(TheDropdown)]
  /\ UNCHANGED <<viewVars, textVars, collapsibleVars, title, multiple, showModal,
                 isHoverDropdown, isChecked>>

\* Dropdown.receiveMouse(event)
DropdownReceiveMouse(event) ==
  /\ UNCHANGED accordionVars
  /\ isHoverDropdown' = IF isMouseEnter(event) THEN TRUE
                        ELSE IF isMouseExit(event) THEN FALSE
                        ELSE isHoverDropdown
  /\ showModal' = IF isMouseClicked(event) THEN TRUE ELSE showModal
  /\ last' = [NoCall EXCEPT !.op = "receiveMouse", !.view = TheDropdown,
                            !.event = event]
  /\ UNCHANGED <<viewVars, textVars, collapsibleVars, title, multiple, choices,
                 selected, isChecked>>

\* Dropdown.dismissModal()
DismissModal ==
  /\ showModal' = FALSE
  /\ last' = [NoCall EXCEPT !.op = "dismissModal", !.view = TheDropdown]
  /\ UNCHANGED <<viewVars, textVars, collapsibleVars, accordionVars, title, multiple,
                 isHoverDropdown, choices, selected, isChecked>>

\* Dropdown.render: the onDismiss callback it passes to viewport.requestModal,
\* called when the overlay is dismissed.
OnDismiss ==
  /\ showModal' = FALSE
  /\ last' = [NoCall EXCEPT !.op = "onDismiss", !.view = TheDropdown]
  /\ UNCHANGED <<viewVars, textVars, collapsibleVars, accordionVars, title, multiple,
                 isHoverDropdown, choices, selected, isChecked>>

-----------------------------------------------------------------------------
\* The state after construction.

\* Dropdown constructor
InitDropdown(t, cs, sel, mult) ==
  /\ title = IF t = <<>> THEN [defined |-> FALSE, lines |-> <<>>]
                         ELSE [defined |-> TRUE, lines |-> Split(t)]
  /\ multiple = mult
  /\ showModal = FALSE
  /\ isHoverDropdown = FALSE
  /\ choices = SplitChoices(cs)
  /\ selected = ToSet(dropdownSelectedRows(sel, cs, mult))
  /\ isChecked = (Len(ToSet(dropdownSelectedRows(sel, cs, mult))) = Len(cs))

\* View constructor and Container.add
InitViews(ps) ==
  /\ parent = TreeParent
  /\ props = ps
  /\ prevSizeCache = [v \in Views |-> EmptyCache]
  /\ viewportContentSize = [v \in Views |-> SizeZero]
  /\ renderedContentSize = [v \in Views |-> SizeZero]
  /\ invalidateParent = [v \in Views |-> TRUE]

\* Text constructor
InitTexts(ts, ws) ==
  /\ text = [v \in TextViews |-> updateLines(Some(ts[v]), None, "default").text]
  /\ font = [v \in TextViews |-> "default"]
  /\ lines = [v \in TextViews |-> updateLines(Some(ts[v]), None, "default").lines]
  /\ wrap = ws

\* Collapsible constructor
InitCollapsibles(cs) ==
  /\ isCollapsed = cs
  /\ isPressed = [v \in CollapsibleViews |-> FALSE]
  /\ isHover = [v \in CollapsibleViews |-> FALSE]

ChoicesAB == <<[text |-> <<"a">>, value |-> 1], [text |-> <<"b", "c", "d">>, value |-> 2]>>

-----------------------------------------------------------------------------
\* Accordion and AccordionSection.

SectionIds == {1, 2}

\* receiveTick: `const amount = dt / 25`. Animated heights are counted in
\* 1/TickDivisor rows, so that dt is the amount in these units.
TickDivisor == 25
\* The natural size of the content view of section s is ContentW + s columns
\* by ContentH rows.
ContentW == 3
ContentH == 2
\* The Accordion's viewport: FrameW columns, FrameH rows or FrameH + TallBy rows.
FrameW == 6
FrameH == 4
TallBy == 4
\* How many times the sections and the Accordion are changed from outside.
MaxToggles == 2

Rows(n) == n * TickDivisor
\* Math.round(h) of a height h >= 0 counted in 1/TickDivisor rows.
RoundRows(h) == (2 * h + TickDivisor) \div (2 * TickDivisor)

\* The title a section is constructed with, and its content view.
SectionTitle == [s \in SectionIds |-> <<"s">>]
\* The #lines of the title view, a Text, whose #text is t.
TitleLines(t) == updateLines(Some(t), None, "default").lines
ContentNaturalSize(s, availableSize) == Size(ContentW + s, ContentH)

\* A Rect by its origin and size; the size is a Size.
MakeRect(x, y, w, h) == [x |-> x, y |-> y, width |-> Max(0, w), height |-> Max(0, h)]
RectZero == MakeRect(0, 0, 0, 0)

\* The height the animation of a section heads for.
TargetHeight(open, actual) == IF open THEN Rows(actual) ELSE 0

\* AccordionSection.#currentSize(collapsedSize, viewSize); sec holds the
\* section's isOpen, current and actual heights.
CurrentSize(sec, collapsedSize, viewSize) ==
  LET cur == IF sec.actual = 0
               THEN (IF sec.isOpen THEN Rows(viewSize.height) ELSE 0)
               ELSE sec.current
  IN [current |-> cur, actual |-> viewSize.height,
      size |-> Size(Max(viewSize.width, collapsedSize.width),
                    collapsedSize.height + RoundRows(cur))]

\* AccordionSection.naturalSize(availableSize); sec also holds the lines of
\* the title view.
SectionNaturalSize(sec, s, availableSize) ==
  LET titleSize == TextReduce(sec.titleLines, FALSE, availableSize, SizeZero)
      collapsedSize == Grow(titleSize, 4, 1)
      remainingSize == Shrink(availableSize, 0, collapsedSize.height)
      viewSize == Grow(ContentNaturalSize(s, remainingSize), 1, 0)
  IN CurrentSize(sec, collapsedSize, viewSize)

\* The element of a set of one element. Only({e(x) : x \in {v}}) is e(v), with
\* v computed once.
Only(S) == CHOOSE x \in S : TRUE

\* View.#naturalSizeWrap of section s (no props set). st holds, for all
\* sections, cache, current, actual, rect, rendered and tick, and the size
\* returned last.
SectionNaturalSizeWrap(st, s, availableSize) ==
  IF cacheKey(availableSize) \in DOMAIN st.cache[s]
    THEN [st EXCEPT !.size = st.cache[s][cacheKey(availableSize)]]
    ELSE LET p == DefaultProps
             shrunk == ShrinkByOffset(p, availableSize)
         IN Only({Only({[st EXCEPT !.cache[s] = CachePut(st.cache[s], cacheKey(shrunk), size),
                                   !.current[s] = sub.current,
                                   !.actual[s] = sub.actual,
                                   !.size = size] :
                          size \in {CachedSize(p, RestrictSize(p, GrowByPadding(p, sub.size),
                                                              shrunk, "shrink"))}}) :
                    sub \in {SectionNaturalSize([titleLines |-> TitleLines(titleText[s]),
                                                 isOpen |-> isOpen[s],
                                                 current |-> st.current[s],
                                                 actual |-> st.actual[s]], s, shrunk)}})

RECURSIVE AccordionReduce(_, _, _, _)
\* Accordion.naturalSize: the reduce over the sections.
AccordionReduce(st, secs, remainingSize, size) ==
  IF secs = <<>> THEN [st EXCEPT !.size = size]
  ELSE LET r == SectionNaturalSizeWrap(st, Head(secs), remainingSize)
           sectionSize == r.size
       IN AccordionReduce(r, Tail(secs),
                          Shrink(remainingSize, 0, sectionSize.height),
                          Size(Max(sectionSize.width, size.width),
                               size.height + sectionSize.height))

\* Accordion.naturalSize(availableSize)
AccordionNaturalSizeOf(st, availableSize) ==
  AccordionReduce(st, sections, availableSize, SizeZero)

\* View.#naturalSizeWrap of the Accordion (no props set), with its cache ac:
\* the sections' state afterwards, the Accordion's cache and the size.
AccordionNaturalSizeWrap(st, ac, availableSize) ==
  IF cacheKey(availableSize) \in DOMAIN ac
    THEN [st |-> st, cache |-> ac, size |-> ac[cacheKey(availableSize)], hit |-> TRUE]
    ELSE LET p == DefaultProps
             shrunk == ShrinkByOffset(p, availableSize)
             sub == AccordionNaturalSizeOf(st, shrunk)
             resolved == RestrictSize(p, GrowByPadding(p, sub.size), shrunk, "shrink")
             size == CachedSize(p, resolved)
         IN [st |-> sub, cache |-> CachePut(ac, cacheKey(shrunk), size),
             size |-> size, hit |-> FALSE]

\* AccordionSection.render: whether it calls viewport.registerTick().
RegistersTick(open, current, actual) == current # TargetHeight(open, actual)

\* View.#renderWrap of section s with AccordionSection.render, in the viewport
\* the Accordion clipped to rect.
SectionRenderWrap(st, s, rect) ==
  LET changed == ContentSizeChanged(st.rect[s], rect)
      cleared == IF changed THEN [st.cache EXCEPT ![s] = EmptyCache] ELSE st.cache
  IN [st EXCEPT !.cache = cleared,
                !.rect[s] = rect,
                !.rendered[s] = TRUE,
                !.tick[s] = RegistersTick(isOpen[s], st.current[s], st.actual[s])]

NextYStays(y, sectionSize) == y

\* Accordion.render: `y += sectionSize.height`
NextY(y, sectionSize) == y + sectionSize.height

RECURSIVE AccordionRenderFrom(_, _, _, _, _)
RECURSIVE RenderSectionThen(_, _, _, _, _)

\* Accordion.render: one turn of the loop, from the result r of the section's
\* naturalSize on, and the turns after it.
RenderSectionThen(r, secs, remainingSize, y, maxY) ==
  LET s == Head(secs)
      sectionSize == r.size
      remaining == Shrink(remainingSize, 0, sectionSize.height)
      rect == MakeRect(0, y, remaining.width, sectionSize.height)
  IN AccordionRenderFrom(SectionRenderWrap(r, s, rect), Tail(secs), remaining,
                         NextY(y, sectionSize), maxY)

\* Accordion.render: the loop over the sections, from the section at y on;
\* state, remainingSize and y are the values the loop has reached.
AccordionRenderFrom(state, secs, remainingSize, y, maxY) ==
  Only({IF secs = <<>> \/ yNow >= maxY THEN st
        ELSE Only({RenderSectionThen(r, secs, remaining, yNow, maxY) :
                     r \in {SectionNaturalSizeWrap(st, Head(secs), remaining)}}) :
          st \in {state}, remaining \in {remainingSize}, yNow \in {y}})

\* The sections' state as the operators above pass it along.
SectionState ==
  [cache |-> sectionCache, current |-> currentViewHeight, actual |-> actualViewHeight,
   rect |-> sectionRect, rendered |-> [s \in SectionIds |-> FALSE],
   tick |-> [s \in SectionIds |-> FALSE], size |-> SizeZero]

NoCalls == [s \in SectionIds |-> 0]

RECURSIVE IsOpenSetter(_, _, _)
RECURSIVE SectionDidChange(_, _, _)
RECURSIVE CloseOthers(_, _, _)

\* AccordionSection: `this.onClick?.(this, value)`. onClick holds nothing
\* ("undefined"), the callback from the props ("props") or the Accordion's
\* #sectionDidChange ("accordion"); t holds isOpen, onClick and calls, the
\* number of calls of each section's callback from the props.
CallOnClick(t, s, value) ==
  IF t.onClick[s] = "props" THEN [t EXCEPT !.calls[s] = @ + 1]
  ELSE IF t.onClick[s] = "accordion" THEN SectionDidChange(t, s, value)
  ELSE t

\* AccordionSection.isOpen setter, also open() and close()
IsOpenSetter(t, s, value) ==
  IF t.isOpen[s] = value THEN t
  ELSE CallOnClick([t EXCEPT !.isOpen[s] = value], s, value)

\* Accordion.#sectionDidChange: the loop over the sections.
CloseOthers(t, secs, toggleSection) ==
  IF secs = <<>> THEN t
  ELSE IF Head(secs) = toggleSection THEN CloseOthers(t, Tail(secs), toggleSection)
  ELSE CloseOthers(IsOpenSetter(t, Head(secs), FALSE), Tail(secs), toggleSection)

\* A callback that leaves the other sections alone.
SectionDidChangeIgnored(t, toggleSection, value) == t

\* Accordion.#sectionDidChange(toggleSection, isOpen)
SectionDidChange(t, toggleSection, value) ==
  IF accordionMultiple \/ ~value THEN t
  ELSE CloseOthers(t, sections, toggleSection)

CallbackState == [isOpen |-> isOpen, onClick |-> onClick, calls |-> NoCalls]

\* The record of the last operation on the Accordion or a section: the
\* section, whether it changed the section's open state, the calls of the
\* callbacks from the props, the open states before it, the sections a tick was
\* delivered to and what
\* receiveTick returned, the sections a render reached, and the size and
\* available size of a naturalSize call.
NoSectionCall ==
  [op |-> "none", section |-> 0, changed |-> FALSE, calls |-> NoCalls,
   ticked |-> {}, returned |-> [s \in SectionIds |-> FALSE],
   rendered |-> [s \in SectionIds |-> FALSE],
   wasOpen |-> [s \in SectionIds |-> FALSE],
   size |-> SizeZero, avail |-> SizeZero, hit |-> FALSE, view |-> 0]

notAccordion == <<viewVars, textVars, collapsibleVars, dropdownVars>>

\* A call of accordion.naturalSize(availableSize).
AccordionNaturalSize(availableSize) ==
  /\ LET r == AccordionNaturalSizeWrap(SectionState, accordionCache, availableSize)
     IN /\ accordionCache' = r.cache
        /\ sectionCache' = r.st.cache
        /\ currentViewHeight' = r.st.current
        /\ actualViewHeight' = r.st.actual
        /\ last' = [NoSectionCall EXCEPT !.op = "accordionNaturalSize",
                                         !.size = r.size, !.avail = availableSize,
                                         !.hit = r.hit]
  /\ UNCHANGED <<sections, accordionMultiple, isOpen, onClick, sectionRect,
                 tickRegistered, needsRender, frameSize, accordionContentSize,
                 propsOnClick, toggles, titleText>>
  /\ UNCHANGED notAccordion

\* The screen renders a frame: View.#renderWrap of the Accordion with
\* Accordion.render. The sections it reaches register for the next tick.
AccordionRender ==
  /\ needsRender
  /\ LET p == DefaultProps
         changed == ContentSizeChanged(accordionContentSize, frameSize)
         inner == RenderContentSize(p, frameSize)
         rendered == RectSize(RestrictSize(p, SizeZero, inner, "grow"))
     IN \E r \in {AccordionRenderFrom(SectionState, sections, rendered, 0,
                                      rendered.height)} :
          /\ accordionCache' = IF changed THEN EmptyCache ELSE accordionCache
          /\ accordionContentSize' = frameSize
          /\ sectionCache' = r.cache
          /\ currentViewHeight' = r.current
          /\ actualViewHeight' = r.actual
          /\ sectionRect' = r.rect
          /\ tickRegistered' = r.tick
          /\ last' = [NoSectionCall EXCEPT !.op = "accordionRender",
                                           !.rendered = r.rendered, !.avail = frameSize]
  /\ needsRender' = FALSE
  /\ UNCHANGED <<sections, accordionMultiple, isOpen, onClick, frameSize,
                 propsOnClick, toggles, titleText>>
  /\ UNCHANGED notAccordion

\* The values of dt a tick is delivered with.
TickDts == {TickDivisor - 5}

ReceiveTickStalls(sec, dt) ==
  [current |-> sec.current, returned |-> sec.actual # 0, invalidated |-> sec.actual # 0]

\* AccordionSection.receiveTick(dt): the new current height, what it returns
\* and whether it called invalidateSize().
ReceiveTick(sec, dt) ==
  IF sec.actual = 0
    THEN [current |-> 0, returned |-> FALSE, invalidated |-> FALSE]
    ELSE [current |-> IF sec.isOpen
                        THEN Min(Rows(sec.actual), sec.current + dt)
                        ELSE Max(0, sec.current - dt),
          returned |-> TRUE, invalidated |-> TRUE]

\* The scheduler delivers a tick to every view registered in the last frame
\* and renders another frame if one of them returned true.
DeliverTick(dt) ==
  /\ ~needsRender
  /\ \E s \in SectionIds : tickRegistered[s]
  /\ LET ticked == {s \in SectionIds : tickRegistered[s]}
         res == [s \in SectionIds |->
                   ReceiveTick([isOpen |-> isOpen[s], current |-> currentViewHeight[s],
                                actual |-> actualViewHeight[s]], dt)]
         invalidated == {s \in ticked : res[s].invalidated}
     IN /\ currentViewHeight' =
             [s \in SectionIds |-> IF s \in ticked THEN res[s].current
                                   ELSE currentViewHeight[s]]
        /\ sectionCache' =
             [s \in SectionIds |-> IF s \in invalidated THEN EmptyCache
                                   ELSE sectionCache[s]]
        /\ accordionCache' =
             IF \E s \in invalidated : \E i \in 1..Len(sections) : sections[i] = s
               THEN EmptyCache ELSE accordionCache
        /\ needsRender' = (needsRender \/ \E s \in ticked : res[s].returned)
        /\ last' = [NoSectionCall EXCEPT !.op = "receiveTick", !.ticked = ticked,
                      !.returned = [s \in SectionIds |-> s \in ticked /\ res[s].returned]]
  /\ tickRegistered' = [s \in SectionIds |-> FALSE]
  /\ UNCHANGED <<sections, accordionMultiple, isOpen, onClick, actualViewHeight,
                 sectionRect, frameSize, accordionContentSize, propsOnClick, toggles, titleText>>
  /\ UNCHANGED notAccordion

\* AccordionSection.receiveMouse(event); the screen renders a frame after it.
SectionReceiveMouse(s, event) ==
  /\ ~needsRender
  /\ toggles < MaxToggles
  /\ LET t == IF isMouseClicked(event)
                THEN CallOnClick([CallbackState EXCEPT !.isOpen[s] = ~@], s, ~isOpen[s])
                ELSE CallbackState
     IN /\ isOpen' = t.isOpen
        /\ last' = [NoSectionCall EXCEPT !.op = "sectionReceiveMouse", !.section = s,
                                         !.changed = isMouseClicked(event),
                                         !.calls = t.calls, !.wasOpen = isOpen]
  /\ toggles' = IF isMouseClicked(event) THEN toggles + 1 ELSE toggles
  /\ needsRender' = TRUE
  /\ UNCHANGED <<sections, accordionMultiple, accordionCache, onClick,
                 currentViewHeight, actualViewHeight, sectionCache, sectionRect,
                 tickRegistered, frameSize, accordionContentSize, propsOnClick, titleText>>
  /\ UNCHANGED notAccordion

\* `section.isOpen = value`, section.open(), section.close()
SetIsOpen(s, value) ==
  /\ toggles < MaxToggles
  /\ LET t == IsOpenSetter(CallbackState, s, value)
     IN /\ isOpen' = t.isOpen
        /\ last' = [NoSectionCall EXCEPT !.op = "isOpen=", !.section = s,
                                         !.changed = (isOpen[s] # value),
                                         !.calls = t.calls, !.wasOpen = isOpen]
  /\ toggles' = toggles + 1
  /\ needsRender' = (needsRender \/ isOpen[s] # value)
  /\ UNCHANGED <<sections, accordionMultiple, accordionCache, onClick,
                 currentViewHeight, actualViewHeight, sectionCache, sectionRect,
                 tickRegistered, frameSize, accordionContentSize, propsOnClick, titleText>>
  /\ UNCHANGED notAccordion

\* What the props of a section hold for isOpen and onClick.
SectionPropsChoices ==
  [isOpen : {"undefined", "true", "false"}, onClick : BOOLEAN]

\* AccordionSection.update(props), through #update
SectionUpdate(s, p) ==
  /\ toggles < MaxToggles
  /\ isOpen' = [isOpen EXCEPT ![s] = (p.isOpen = "true")]
  /\ onClick' = [onClick EXCEPT ![s] = IF p.onClick THEN "props" ELSE "undefined"]
  /\ propsOnClick' = [propsOnClick EXCEPT ![s] = p.onClick]
  /\ toggles' = toggles + 1
  /\ needsRender' = TRUE
  /\ last' = [NoSectionCall EXCEPT !.op = "update", !.section = s]
  /\ UNCHANGED <<sections, accordionMultiple, accordionCache, currentViewHeight,
                 actualViewHeight, sectionCache, sectionRect, tickRegistered,
                 frameSize, accordionContentSize, titleText>>
  /\ UNCHANGED notAccordion

\* The titles assigned to a section.
TitleLong == <<"l", "o", "n", "g">>
Titles == {SectionTitle[s] : s \in SectionIds} \cup {TitleLong}

\* AccordionSection: `section.title = value`, the text setter of the title
\* view: #updateLines and invalidateSize() of the Text, of the section and,
\* for a child of the Accordion, of the Accordion.
SetTitle(s, value) ==
  /\ toggles < MaxToggles
  /\ toggles' = toggles + 1
  /\ IF titleText[s] = value
       THEN UNCHANGED <<titleText, sectionCache, accordionCache>>
       ELSE /\ titleText' =
                 [titleText EXCEPT
                    ![s] = updateLines(Some(value), Some(Split(value)), "default").text]
            /\ sectionCache' = [sectionCache EXCEPT ![s] = EmptyCache]
            /\ accordionCache' =
                 IF \E i \in 1..Len(sections) : sections[i] = s
                   THEN EmptyCache ELSE accordionCache
  /\ last' = [NoSectionCall EXCEPT !.op = "title=", !.section = s,
                                   !.changed = (titleText[s] # value)]
  /\ UNCHANGED <<sections, accordionMultiple, isOpen, onClick, currentViewHeight,
                 actualViewHeight, sectionRect, tickRegistered, needsRender,
                 frameSize, accordionContentSize, propsOnClick>>
  /\ UNCHANGED notAccordion

RECURSIVE CloseAll(_, _)
\* Accordion.addSection: `this.sections.forEach(section => (section.isOpen = false))`
CloseAll(t, secs) ==
  IF secs = <<>> THEN t ELSE CloseAll(IsOpenSetter(t, Head(secs), FALSE), Tail(secs))

\* Accordion.addSection(section)
AddSection(s) ==
  /\ \A i \in 1..Len(sections) : sections[i] # s
  /\ LET t0 == [CallbackState EXCEPT !.onClick[s] = "accordion"]
         t == IF ~accordionMultiple /\ isOpen[s]
                THEN CloseAll(t0, sections)
                ELSE t0
     IN /\ isOpen' = t.isOpen
        /\ onClick' = t.onClick
        /\ last' = [NoSectionCall EXCEPT !.op = "addSection", !.section = s,
                                         !.calls = t.calls, !.wasOpen = isOpen]
  /\ sections' = Append(sections, s)
  /\ accordionCache' = EmptyCache
  /\ needsRender' = TRUE
  /\ UNCHANGED <<accordionMultiple, currentViewHeight, actualViewHeight, sectionCache,
                 sectionRect, tickRegistered, frameSize, accordionContentSize,
                 propsOnClick, toggles, titleText>>
  /\ UNCHANGED notAccordion

\* AccordionSection constructor, for every section; none is in an Accordion.
\* The constructor passes only isOpen on to #update, which assigns onClick.
InitSections(open, supplied) ==
  /\ isOpen = open
  /\ onClick = [s \in SectionIds |-> "undefined"]
  /\ propsOnClick = supplied
  /\ currentViewHeight = [s \in SectionIds |-> 0]
  /\ actualViewHeight = [s \in SectionIds |-> 0]
  /\ sectionCache = [s \in SectionIds |-> EmptyCache]
  /\ sectionRect = [s \in SectionIds |-> RectZero]
  /\ tickRegistered = [s \in SectionIds |-> FALSE]
  /\ titleText = [s \in SectionIds |->
                    updateLines(Some(SectionTitle[s]), None, "default").text]

\* Accordion constructor, and the screen before its first frame.
InitAccordion(mult, frame) ==
  /\ sections = <<>>
  /\ accordionMultiple = mult
  /\ accordionCache = EmptyCache
  /\ accordionContentSize = SizeZero
  /\ frameSize = frame
  /\ needsRender = TRUE
  /\ toggles = 0

FrameSizes == {Size(FrameW, FrameH), Size(FrameW, FrameH + TallBy)}

\* No Accordion is in use.
InitNoAccordion ==
  /\ InitSections([s \in SectionIds |-> FALSE], [s \in SectionIds |-> FALSE])
  /\ InitAccordion(FALSE, Size(FrameW, FrameH))

-----------------------------------------------------------------------------
\* The sizing wrapper of one view under every combination of its props.

WrapView == CHOOSE v \in TextViews : TreeParent[v] = Root

WidthChoices == {Unset, Fill, Natural, Num(BigDim)}
HeightChoices == {Unset, Natural, Num(BigDimH)}
OffsetChoices == {Unset} \cup {Num(n) : n \in 1..MaxOffset}
WidthBoundChoices == {<<Unset, Unset>>, <<Num(LowBound), Unset>>,
                      <<Unset, Num(HighBound)>>, <<Num(LowBound), Num(HighBound)>>}
HeightBoundChoices == {<<Unset, Unset>>, <<Num(LowBound + 1), Num(HighBound)>>}
PaddingChoices == {Unset, Num(PadAmount)}

WrapProps ==
  {[x |-> x, y |-> y, width |-> w, height |-> h,
    minWidth |-> wb[1], maxWidth |-> wb[2],
    minHeight |-> hb[1], maxHeight |-> hb[2], padding |-> pad,
    theme |-> Unset, screen |-> NoScreen] :
     x \in OffsetChoices, y \in {Unset, Num(MaxOffset)},
     w \in WidthChoices, h \in HeightChoices,
     wb \in WidthBoundChoices, hb \in HeightBoundChoices,
     pad \in PaddingChoices}

InitWrap ==
  /\ InitNoAccordion
  /\ \E p \in WrapProps :
       InitViews([v \in Views |-> IF v = WrapView THEN p ELSE DefaultProps])
  /\ \E w \in BOOLEAN :
       InitTexts([v \in TextViews |-> TextLong], [v \in TextViews |-> w])
  /\ InitCollapsibles([v \in CollapsibleViews |-> FALSE])
  /\ InitDropdown(<<>>, ChoicesAB, <<>>, FALSE)
  /\ last = NoCall

NextWrap ==
  \/ \E a \in AvailableSizes : NaturalSize(WrapView, a)
  \/ CallInvalidateSize(WrapView)

SpecWrap == InitWrap /\ [][NextWrap]_vars

-----------------------------------------------------------------------------
\* The view tree under naturalSize, render and invalidation.

NaturalProps == [DefaultProps EXCEPT !.width = Natural, !.height = Natural]
TreeProps == {DefaultProps, NaturalProps}
TreeTexts == [v \in TextViews |-> IF TreeParent[v] = Root THEN TextLong ELSE TextShort]
TreeWraps == [v \in TextViews |-> TreeParent[v] = Root]
\* The sizes the tree is asked for and rendered at.
TreeSizes == {Size(MaxW, MaxH), Size(MaxW - 1, MaxH)}
\* The Text two levels below the root.
DeepText == CHOOSE v \in TextViews : TreeParent[v] # Root
\* The views the application calls directly.
CalledViews == {Root, DeepText}

InitTree ==
  /\ InitNoAccordion
  /\ \E p \in TreeProps :
       InitViews([v \in Views |-> IF v # Root THEN p ELSE DefaultProps])
  /\ InitTexts(TreeTexts, TreeWraps)
  /\ \E cs \in [CollapsibleViews -> BOOLEAN] : InitCollapsibles(cs)
  /\ InitDropdown(<<>>, ChoicesAB, <<>>, FALSE)
  /\ last = NoCall

NextTree ==
  \/ \E v \in CalledViews, a \in TreeSizes : NaturalSize(v, a)
  \/ \E v \in Views : CallInvalidateSize(v)
  \/ \E v \in CalledViews, a \in TreeSizes : Render(v, a)

SpecTree == InitTree /\ [][NextTree]_vars

-----------------------------------------------------------------------------
\* The Text setters in the tree.

InitText ==
  /\ InitNoAccordion
  /\ InitViews([v \in Views |-> DefaultProps])
  /\ InitTexts(TreeTexts, TreeWraps)
  /\ InitCollapsibles([v \in CollapsibleViews |-> FALSE])
  /\ InitDropdown(<<>>, ChoicesAB, <<>>, FALSE)
  /\ last = NoCall

NextText ==
  \/ \E a \in TreeSizes : NaturalSize(Root, a)
  \/ \E t \in Texts : SetText(DeepText, t)
  \/ \E f \in Fonts : SetFont(DeepText, f)
  \/ \E p \in TextPropsChoices : TextUpdate(DeepText, p)
  \/ \E v \in CollapsibleViews : CollapsibleReceiveMouse(v, "click")

SpecText == InitText /\ [][NextText]_vars

-----------------------------------------------------------------------------
\* The Dropdown in the tree.

ChoicesBC == <<[text |-> <<"b", "c", "d">>, value |-> 2],
               [text |-> <<"e", NL, "f", "g">>, value |-> MaxValue]>>
ChoiceLists == {ChoicesAB, ChoicesBC}
InitDropdownSpec ==
  /\ InitNoAccordion
  /\ InitViews([v \in Views |-> DefaultProps])
  /\ InitTexts(TreeTexts, TreeWraps)
  /\ InitCollapsibles([v \in CollapsibleViews |-> v = Root])
  /\ \E t \in {<<>>, <<"t">>}, mult \in BOOLEAN :
       \E sel \in {<<>>, <<1>>} : InitDropdown(t, ChoicesAB, sel, mult)
  /\ last = NoCall

NextDropdown ==
  \/ \E v \in {Root, TheDropdown}, a \in TreeSizes : NaturalSize(v, a)
  \/ \E row \in 0..MaxValue : RowClick(row)
  \/ \E value \in BOOLEAN : CheckAll(value)
  \/ \E sel \in SelectedInputs(TRUE) : SetSelected(sel)
  \/ \E cs \in ChoiceLists : SetChoices(cs)
  \/ DropdownReceiveMouse("click")

SpecDropdown == InitDropdownSpec /\ [][NextDropdown]_vars

-----------------------------------------------------------------------------
\* Claims about the naturalSize wrapper (SpecWrap).

LastWasNaturalSize == last.op = "naturalSize"

\* C1: a naturalSize(A) call repeated right after naturalSize(A), with no
\* invalidation or mutation in between, returns the size the first call
\* returned, whatever calls with other available sizes came before.
C1_RepeatedCallReturnsEqualSize ==
  LastWasNaturalSize =>
    NaturalSizeWrap(prevSizeCache, last.view, last.avail).size = last.size

C1_Witness ==
  /\ LastWasNaturalSize
  /\ last.hit
  /\ Truthy(props[last.view].x)
  /\ Cardinality(DOMAIN prevSizeCache[last.view]) >= 2

\* C2: after naturalSize(A) has returned, a repeated naturalSize(A) is a cache
\* hit, for every view, with x/y offset or without.
C2_RepeatedCallIsCacheHit ==
  LastWasNaturalSize =>
    NaturalSizeWrap(prevSizeCache, last.view, last.avail).hit

\* C3: naturalSize(B) returns the size a computation for B with empty caches
\* returns, whatever was computed and cached for other available sizes.
C3_ReturnsSizeComputedForItsAvailable ==
  LastWasNaturalSize =>
    last.size = NaturalSizeWrap([v \in Views |-> EmptyCache], last.view, last.avail).size

HasExplicitSize(v) ==
  props[v].width.kind = "number" /\ props[v].height.kind = "number"

\* C6 as claimed: with explicit numeric width W and height H, naturalSize(A)
\* is Size(W, H) whatever the x/y offset of the view.
C6_ExplicitSizeWhateverOffset ==
  (LastWasNaturalSize /\ HasExplicitSize(last.view)) =>
    last.size = MutableSize(props[last.view].width.n, props[last.view].height.n)

\* C6 amended: with explicit numeric width W and height H, naturalSize(A) is
\* Size(W + x, H + y), x and y the view's offsets (0 when unset), for every A,
\* padding and min/max bounds.
C6_ExplicitSizePlusOffset ==
  (LastWasNaturalSize /\ HasExplicitSize(last.view)) =>
    last.size = MutableSize(props[last.view].width.n + OrZero(props[last.view].x),
                            props[last.view].height.n + OrZero(props[last.view].y))

C6_Witness ==
  /\ LastWasNaturalSize /\ HasExplicitSize(last.view) /\ ~last.hit
  /\ Truthy(props[last.view].x) /\ Truthy(props[last.view].y)
  /\ Truthy(props[last.view].padding)
  /\ IsDefined(props[last.view].minWidth) /\ IsDefined(props[last.view].maxHeight)
  /\ last.avail.width < props[last.view].width.n
  /\ last.avail.height < props[last.view].height.n

\* C7: with width 'fill', naturalSize(A).width is A.width, after any earlier
\* naturalSize calls and for any x offset (here: any offset that fits in A).
C7_FillWidthIsAvailableWidth ==
  (/\ LastWasNaturalSize
   /\ props[last.view].width.kind = "fill"
   /\ last.avail.width >= OrZero(props[last.view].x)) =>
    last.size.width = last.avail.width

\* What an unset dimension resolves to: the minimum applied first, the maximum last.
ClampedTo(minB, maxB, n) ==
  LET lo == IF IsDefined(minB) /\ minB.n > n THEN minB.n ELSE n
  IN IF IsDefined(maxB) /\ maxB.n < lo THEN maxB.n ELSE lo

\* The padded subclass size the last naturalSize call calculated.
LastCalculated ==
  LET p == props[last.view]
      shrunk == ShrinkByOffset(p, last.avail)
  IN GrowByPadding(p, SubclassNaturalSize(prevSizeCache, last.view, shrunk).size)

\* C8: a naturalSize call that computes resolves an unset dimension to
\* min(max bound, max(min bound, calculated)), and a pinned dimension (number,
\* 'fill', 'natural') to the pinned value whatever the bounds are; width and
\* height each by its own prop and bounds.
C8_UnsetDimensionClampedPinnedNot ==
  (LastWasNaturalSize /\ ~last.hit) =>
    LET p == props[last.view]
        shrunk == ShrinkByOffset(p, last.avail)
        calc == LastCalculated
    IN /\ last.resolved.width =
            CASE p.width.kind = "undefined" ->
                   ClampedTo(p.minWidth, p.maxWidth, calc.width)
              [] p.width.kind = "fill" -> shrunk.width
              [] p.width.kind = "natural" -> calc.width
              [] OTHER -> p.width.n
       /\ last.resolved.height =
            CASE p.height.kind = "undefined" ->
                   ClampedTo(p.minHeight, p.maxHeight, calc.height)
              [] p.height.kind = "fill" -> shrunk.height
              [] p.height.kind = "natural" -> calc.height
              [] OTHER -> p.height.n

C8_Witness ==
  /\ LastWasNaturalSize /\ ~last.hit
  /\ ~IsDefined(props[last.view].width)
  /\ IsDefined(props[last.view].minWidth) /\ IsDefined(props[last.view].maxWidth)
  /\ props[last.view].minWidth.n > props[last.view].maxWidth.n
  /\ props[last.view].height.kind = "natural"
  /\ IsDefined(props[last.view].minHeight)
  /\ last.resolved.width = props[last.view].maxWidth.n
  /\ last.resolved.height > props[last.view].maxHeight.n

-----------------------------------------------------------------------------
\* Claims about invalidation in the tree (SpecTree).

\* The view with its parent chain.
Chain(v) == {v} \cup Ancestors(v)

\* C4: invalidateSize() called on a view empties the size cache of the view and
\* of every ancestor, and the root's next naturalSize(A), for every A used
\* before, is computed again and not answered from the cache.
C4_InvalidateSizeEmptiesChain ==
  last.op = "invalidateSize" =>
    /\ \A a \in Chain(last.view) : prevSizeCache[a] = EmptyCache
    /\ \A A \in TreeSizes : ~NaturalSizeWrap(prevSizeCache, Root, A).hit

C4_Witness ==
  /\ last.op = "invalidateSize"
  /\ Cardinality(Ancestors(last.view)) = 2
  /\ last.cachedBefore = Chain(last.view)

\* C5: a render whose viewport content size differs from the one recorded at
\* the previous render empties the view's own cache (what it holds afterwards
\* is the entry the render itself computed) and modifies no ancestor's cache;
\* a render with the content size unchanged removes nothing from the cache of
\* the view or of an ancestor. Either way, once render has returned the gate
\* is open: invalidateSize() on the view empties its parent's cache.
C5_RenderClearsOnlyOwnCache ==
  [][last'.op = "render" =>
       LET v == last'.view
           p == props[v]
           inner == RenderContentSize(p, last'.avail)
       IN /\ \A a \in Ancestors(v) : prevSizeCache'[a] = prevSizeCache[a]
          /\ IF last'.changed
               THEN DOMAIN prevSizeCache'[v] \subseteq {cacheKey(ShrinkByOffset(p, inner))}
               ELSE \A k \in DOMAIN prevSizeCache[v] :
                      /\ k \in DOMAIN prevSizeCache'[v]
                      /\ prevSizeCache'[v][k] = prevSizeCache[v][k]
          /\ invalidateParent'[v]
          /\ parent[v] # 0 =>
               InvalidateSize(prevSizeCache', invalidateParent', v)[parent[v]] = EmptyCache
    ]_vars

C5_Witness ==
  /\ last.op = "render"
  /\ last.changed
  /\ Cardinality(Ancestors(last.view)) = 2
  /\ last.cachedBefore = Chain(last.view)
  /\ \A a \in Ancestors(last.view) : prevSizeCache[a] # EmptyCache

-----------------------------------------------------------------------------
\* Claims about the Dropdown (SpecDropdown).

DropdownOps == {"rowClick", "checkAll", "selected=", "choices="}

\* C9: after an operation that changes the title lines the Dropdown displays
\* (a row chosen, select-all, `selected` assigned, `choices` assigned), the next
\* naturalSize(A) is the size of the displayed title lines grown by 5 columns,
\* and the caches of the Dropdown's ancestors are empty.
C9_DropdownCacheNeverStale ==
  (last.op \in DropdownOps /\ last.changed) =>
    /\ \A A \in TreeSizes :
         NaturalSizeWrap(prevSizeCache, TheDropdown, A).size
           = Grow(stringSize(titleLines), 5, 0)
    /\ \A a \in Ancestors(TheDropdown) : prevSizeCache[a] = EmptyCache

-----------------------------------------------------------------------------
\* Claims about the Text setters (SpecText).

TextOps == {"text=", "font="}

\* The lines of a text: none for the empty text, else its split at newlines.
LinesOf(t) == IF t = <<>> THEN <<>> ELSE Split(t)

\* C10: assigning Text.text or Text.font a value different from the current
\* one empties the size cache of the Text and of every ancestor, and the next
\* naturalSize(A) of the Text (wrap off) is the widest line by the number of
\* lines of the new text; assigning the value it already has changes no cache.
C10_TextSetterInvalidates ==
  /\ [](/\ last.op \in TextOps
        /\ last.changed
        => /\ \A a \in Chain(last.view) : prevSizeCache[a] = EmptyCache
           /\ ~wrap[last.view] =>
                \A A \in TreeSizes :
                  NaturalSizeWrap(prevSizeCache, last.view, A).size
                    = Size(MaxLineWidth(LinesOf(text[last.view])),
                           Len(LinesOf(text[last.view]))))
  /\ [][(last'.op \in TextOps /\ ~last'.changed) => prevSizeCache' = prevSizeCache]_vars

C10_Witness ==
  /\ last.op = "text="
  /\ last.changed
  /\ ~wrap[last.view]
  /\ last.cachedBefore = Chain(last.view)
  /\ Cardinality(Chain(last.view)) = 3
  /\ Len(LinesOf(text[last.view])) = 2

-----------------------------------------------------------------------------
\* The render wrapper of one view under every combination of its props.

NextRender ==
  \/ \E a \in AvailableSizes : Render(WrapView, a)
  \/ CallInvalidateSize(WrapView)

SpecRender == InitWrap /\ [][NextRender]_vars

\* C11: for every viewport content size, offset and padding, the content size
\* the render wrapper computes and the size it records as View.contentSize
\* have width >= 0 and height >= 0.
C11_RenderedSizeNeverNegative ==
  last.op = "render" =>
    LET inner == RenderContentSize(props[last.view], last.avail)
        recorded == renderedContentSize[last.view]
    IN /\ inner.width >= 0 /\ inner.height >= 0
       /\ recorded.width >= 0 /\ recorded.height >= 0

-----------------------------------------------------------------------------
\* An Accordion of up to two sections on a screen that renders frames and
\* delivers ticks.

InitAccordionSpec ==
  /\ InitViews([v \in Views |-> DefaultProps])
  /\ InitTexts(TreeTexts, TreeWraps)
  /\ InitCollapsibles([v \in CollapsibleViews |-> FALSE])
  /\ InitDropdown(<<>>, ChoicesAB, <<>>, FALSE)
  /\ \E open \in [SectionIds -> BOOLEAN] :
       InitSections(open, [s \in SectionIds |-> FALSE])
  /\ \E mult \in BOOLEAN, frame \in FrameSizes : InitAccordion(mult, frame)
  /\ last = NoSectionCall

NextAccordion ==
  \/ \E s \in SectionIds : AddSection(s)
  \/ \E a \in FrameSizes : AccordionNaturalSize(a)
  \/ AccordionRender
  \/ \E dt \in TickDts : DeliverTick(dt)
  \/ \E s \in SectionIds : SectionReceiveMouse(s, "click")
  \/ \E s \in SectionIds, value \in BOOLEAN : SetIsOpen(s, value)
  \/ \E s \in SectionIds, value \in Titles : SetTitle(s, value)

SpecAccordion == InitAccordionSpec /\ [][NextAccordion]_vars

\* The natural size section s reports in the current state.
SectionSizeNow(s) ==
  SectionNaturalSize([titleLines |-> TitleLines(titleText[s]),
                      isOpen |-> isOpen[s], current |-> currentViewHeight[s],
                      actual |-> actualViewHeight[s]], s, last.avail).size

RECURSIVE SumHeights(_, _)
\* The sum of the natural heights of the first k sections.
SumHeights(secs, k) ==
  IF k = 0 THEN 0 ELSE SumHeights(secs, k - 1) + SectionSizeNow(secs[k]).height

RECURSIVE MaxWidth(_, _)
\* The largest natural width of the first k sections.
MaxWidth(secs, k) ==
  IF k = 0 THEN 0 ELSE Max(MaxWidth(secs, k - 1), SectionSizeNow(secs[k]).width)

\* C12: an Accordion stacks its sections top to bottom in insertion order:
\* naturalSize reports (max of the sections' widths, sum of their heights),
\* and render gives section k, if it starts above the visible bottom edge, the
\* rect at (0, sum of the heights of the sections before it) of the full
\* content width and the section's height; the sections that start at or below
\* the bottom edge are not rendered.
C12_SectionsStackedInInsertionOrder ==
  /\ last.op = "accordionNaturalSize" =>
       last.size = Size(MaxWidth(sections, Len(sections)),
                        SumHeights(sections, Len(sections)))
  /\ last.op = "accordionRender" =>
       \A k \in 1..Len(sections) :
         LET y == SumHeights(sections, k - 1)
         IN IF y < frameSize.height
              THEN /\ last.rendered[sections[k]]
                   /\ sectionRect[sections[k]] =
                        MakeRect(0, y, frameSize.width, SectionSizeNow(sections[k]).height)
              ELSE ~last.rendered[sections[k]]

\* Two sections, the first taller than when collapsed: naturalSize reported
\* both, and a render placed the second below the first.
C12_Witness ==
  /\ Len(sections) = 2
  /\ last.op = "accordionRender"
  /\ last.rendered[sections[2]]
  /\ sectionRect[sections[2]].y > 2
  /\ SectionSizeNow(sections[1]).width # SectionSizeNow(sections[2]).width
  /\ accordionCache # EmptyCache

\* C14: AccordionSection.receiveTick returns whether the section still needs
\* further ticks: true while its animated height has not reached the target,
\* false on and after the tick in which the target is reached.
C14_ReceiveTickReturnsWhetherUnfinished ==
  last.op = "receiveTick" =>
    \A s \in last.ticked :
      last.returned[s] =
        (currentViewHeight[s] # TargetHeight(isOpen[s], actualViewHeight[s]))

-----------------------------------------------------------------------------
\* The same Accordion with a screen that renders every frame that is due and a
\* scheduler that delivers every registered tick.

NextAccordionLive ==
  \/ \E s \in SectionIds : AddSection(s)
  \/ AccordionRender
  \/ \E dt \in TickDts : DeliverTick(dt)
  \/ \E s \in SectionIds : SectionReceiveMouse(s, "click")
  \/ \E s \in SectionIds, value \in BOOLEAN : SetIsOpen(s, value)

SpecAccordionLive ==
  /\ InitAccordionSpec
  /\ [][NextAccordionLive]_vars
  /\ WF_vars(AccordionRender)
  /\ WF_vars(\E dt \in TickDts : DeliverTick(dt))

\* The animated height of section s equals its target.
AtTarget(s) ==
  currentViewHeight[s] = TargetHeight(isOpen[s], actualViewHeight[s])

\* No frame is due and no view is registered for a tick.
SchedulerIdle == ~needsRender /\ \A s \in SectionIds : ~tickRegistered[s]

\* The render of a frame in the current state reaches section s.
RenderReaches(s) ==
  AccordionRenderFrom(SectionState, sections, frameSize, 0, frameSize.height).rendered[s]

\* C13 as stated: after the toggles the animated height of every section of
\* the Accordion eventually equals its target for good, and the scheduler idles.
C13_EverySectionReachesTarget ==
  <>[](SchedulerIdle /\ \A i \in 1..Len(sections) : AtTarget(sections[i]))

\* C13: the open/close animation terminates for the sections whose render is
\* called in the frames: eventually, for good, every section that the
\* Accordion's render reaches is at its target, no section is registered for a
\* tick and no frame is due.
C13_RenderedSectionsReachTarget ==
  <>[](SchedulerIdle /\
       \A i \in 1..Len(sections) : RenderReaches(sections[i]) => AtTarget(sections[i]))

\* A tick has just brought a toggled section of the Accordion to its target,
\* while another section, which the render no longer reaches, is short of its.
C13_Witness ==
  /\ last.op = "receiveTick"
  /\ toggles > 0
  /\ \E i, j \in 1..Len(sections) :
       /\ sections[i] \in last.ticked
       /\ AtTarget(sections[i])
       /\ actualViewHeight[sections[i]] > 0
       /\ ~RenderReaches(sections[j])
       /\ ~AtTarget(sections[j])

-----------------------------------------------------------------------------
\* Sections constructed with or without an onClick in their props, used on
\* their own and in an Accordion.

InitSectionSpec ==
  /\ InitViews([v \in Views |-> DefaultProps])
  /\ InitTexts(TreeTexts, TreeWraps)
  /\ InitCollapsibles([v \in CollapsibleViews |-> FALSE])
  /\ InitDropdown(<<>>, ChoicesAB, <<>>, FALSE)
  /\ \E open \in [SectionIds -> BOOLEAN], supplied \in [SectionIds -> BOOLEAN] :
       InitSections(open, supplied)
  /\ \E mult \in BOOLEAN : InitAccordion(mult, Size(FrameW, FrameH + TallBy))
  /\ last = NoSectionCall

NextSection ==
  \/ \E s \in SectionIds : AddSection(s)
  \/ AccordionRender
  \/ \E s \in SectionIds : SectionReceiveMouse(s, "click")
  \/ \E s \in SectionIds, value \in BOOLEAN : SetIsOpen(s, value)
  \/ \E s \in SectionIds, p \in SectionPropsChoices : SectionUpdate(s, p)

SpecSection == InitSectionSpec /\ [][NextSection]_vars

\* The operations that change a section's open state and report it.
OpenStateOps == {"sectionReceiveMouse", "isOpen=", "addSection"}

\* C18: the onClick callback supplied in a section's props is called exactly
\* once by each operation (click, open(), close(), assignment to isOpen) that
\* changes that section's open state, also when the section is in an
\* Accordion, and is not called when the open state does not change.
C18_PropsOnClickCalledOncePerChange ==
  last.op \in OpenStateOps =>
    \A s \in SectionIds :
      propsOnClick[s] =>
        last.calls[s] = (IF isOpen[s] # last.wasOpen[s] THEN 1 ELSE 0)

-----------------------------------------------------------------------------
\* The Collapsibles of the tree under every mouse event, in any order.

NextMouse ==
  \/ \E v \in CollapsibleViews, event \in MouseEvents : CollapsibleReceiveMouse(v, event)
  \/ \E a \in TreeSizes : NaturalSize(Root, a)

SpecMouse == InitTree /\ [][NextMouse]_vars

\* C15: a Collapsible switches between collapsed and expanded only on a
\* click, a release after this same Collapsible received the press: its
\* collapsed state changes only in a receiveMouse of a release event (the view
\* is not pressed afterwards) delivered while the view was pressed.
C15_TogglesOnlyOnReleaseAfterOwnPress ==
  [][\A v \in CollapsibleViews :
       isCollapsed'[v] # isCollapsed[v] =>
         /\ last'.op = "receiveMouse" /\ last'.view = v
         /\ isPressed[v] /\ ~isPressed'[v]]_vars

-----------------------------------------------------------------------------
\* The Dropdown opened, used and dismissed; one of the choice lists has a
\* choice whose value is undefined.

ChoicesWithUndefined == <<[text |-> <<"a">>, value |-> 1],
                          [text |-> <<"n">>, value |-> UndefinedValue]>>

InitSelect ==
  /\ InitNoAccordion
  /\ InitViews([v \in Views |-> DefaultProps])
  /\ InitTexts(TreeTexts, TreeWraps)
  /\ InitCollapsibles([v \in CollapsibleViews |-> v = Root])
  /\ \E t \in {<<>>, <<"t">>}, mult \in BOOLEAN, cs \in {ChoicesAB, ChoicesWithUndefined} :
       \E sel \in {<<>>, <<1>>} : InitDropdown(t, cs, sel, mult)
  /\ last = NoCall

NextSelect ==
  \/ \E v \in {Root, TheDropdown} : Render(v, Size(MaxW, MaxH))
  \/ \E row \in 0..MaxValue : RowClick(row)
  \/ \E value \in BOOLEAN : CheckAll(value)
  \/ \E event \in MouseEvents : DropdownReceiveMouse(event)
  \/ DismissModal
  \/ OnDismiss
  \/ \E sel \in SelectedInputs(TRUE) : SetSelected(sel)
  \/ \E cs \in {ChoicesAB, ChoicesWithUndefined} : SetChoices(cs)

SpecSelect == InitSelect /\ [][NextSelect]_vars

\* The operations that close the Dropdown.
ClosingStep ==
  \/ last'.op \in {"dismissModal", "onDismiss"}
  \/ last'.op = "rowClick" /\ ~multiple

\* C16: the Dropdown's render requests the selector as a modal exactly while
\* the dropdown is open: a click opens it; onDismiss, dismissModal() and a row
\* chosen in single-select mode close it; every other operation, a row chosen
\* or all rows checked in multi-select mode included, leaves it as it is; and
\* a render that reaches the Dropdown requests the modal iff it is open.
C16_ModalRequestedExactlyWhileOpen ==
  [][/\ (last'.op = "receiveMouse" /\ last'.event = "click") => showModal'
     /\ ClosingStep => ~showModal'
     /\ (~ClosingStep /\ ~(last'.op = "receiveMouse" /\ last'.event = "click"))
          => showModal' = showModal
     /\ last'.op = "render" => (last'.modal <=> showModal)]_vars

\* A render requests the modal of a multi-select Dropdown that is open and has
\* a row chosen.
C16_Witness ==
  /\ last.op = "render"
  /\ last.modal
  /\ multiple
  /\ Len(selected) = 1

\* C17: in a single-select Dropdown at most one choice is selected at any
\* time; choosing a row makes it the only selected row, and the onSelect
\* callback is then called exactly once, with that row's value.
C17_SingleSelectOneRowOneCall ==
  ~multiple =>
    /\ Len(selected) <= 1
    /\ last.op = "rowClick" =>
         /\ selected = <<last.row>>
         /\ last.calls = <<<<choices[last.row + 1].value>>>>

-----------------------------------------------------------------------------
\* DropdownSelector.render: where the list goes in the modal's viewport.

\* The viewport is ViewportW columns wide and up to MaxViewportH rows high;
\* the list's natural height is up to MaxListH rows; the anchor (the
\* viewport's parentRect) is AnchorW columns wide, up to MaxAnchorH rows high
\* and starts up to AnchorOut rows above the top or below the bottom.
ViewportW == 4
MaxViewportH == 5
MaxListH == 6
AnchorW == 2
MaxAnchorH == 2
AnchorOut == 6

\* Size.max(other)
SizeMax(a, b) == Size(Max(a.width, b.width), Max(a.height, b.height))

\* Rect accessors
RectMinX(r) == r.x
RectMaxX(r) == r.x + r.width
RectMinY(r) == r.y
RectMaxY(r) == r.y + r.height

MoreRoomAboveOrTie(spaceAbove, spaceBelow) == spaceAbove >= spaceBelow

\* DropdownSelector.render: `if (spaceAbove > spaceBelow)`
MoreRoomAbove(spaceAbove, spaceBelow) == spaceAbove > spaceBelow

\* DropdownSelector.render(viewport): the placement (the box's border) and
\* the rect the children are rendered in; selectorSize is what
\* this.naturalSize(viewport.contentSize) returns.
SelectorRender(contentSize, parentRect, selectorSize) ==
  LET naturalSize == SizeMax(selectorSize, contentSize)
      fitsBelow == RectMaxY(parentRect) + naturalSize.height < contentSize.height
      fitsAbove == naturalSize.height <= RectMinY(parentRect)
      spaceBelow == contentSize.height - RectMaxY(parentRect) + 1
      spaceAbove == RectMinY(parentRect) + 1
      placement == IF ~fitsBelow /\ ~fitsAbove
                     THEN (IF MoreRoomAbove(spaceAbove, spaceBelow) THEN "above" ELSE "below")
                   ELSE IF fitsBelow THEN "below"
                   ELSE "above"
      height == IF ~fitsBelow /\ ~fitsAbove
                  THEN (IF MoreRoomAbove(spaceAbove, spaceBelow) THEN spaceAbove
                        ELSE spaceBelow)
                  ELSE naturalSize.height
      width == parentRect.width
      x == Max(Max(0, RectMaxX(parentRect) - width), RectMinX(parentRect))
      y == IF placement = "below" THEN RectMaxY(parentRect)
           ELSE RectMinY(parentRect) - height
  IN [placement |-> placement, rect |-> MakeRect(x, y, width, height)]

\* The record of a render of the selector.
NoSelectorRender ==
  [op |-> "none", contentSize |-> SizeZero, parentRect |-> RectZero,
   selectorSize |-> SizeZero, placement |-> "none", rect |-> RectZero]

\* A frame renders the modal: DropdownSelector.render(viewport).
RenderSelector(contentSize, parentRect, selectorSize) ==
  /\ LET r == SelectorRender(contentSize, parentRect, selectorSize)
     IN last' = [op |-> "selectorRender", contentSize |-> contentSize,
                 parentRect |-> parentRect, selectorSize |-> selectorSize,
                 placement |-> r.placement, rect |-> r.rect]
  /\ UNCHANGED <<viewVars, textVars, collapsibleVars, dropdownVars, accordionVars>>

InitPlacement ==
  /\ InitNoAccordion
  /\ InitViews([v \in Views |-> DefaultProps])
  /\ InitTexts(TreeTexts, TreeWraps)
  /\ InitCollapsibles([v \in CollapsibleViews |-> FALSE])
  /\ InitDropdown(<<>>, ChoicesAB, <<>>, FALSE)
  /\ last = NoSelectorRender

ViewportSizes == {Size(ViewportW, h) : h \in 1..MaxViewportH}
AnchorRects ==
  {MakeRect(x, y, AnchorW, h) :
     x \in 0..1, y \in (0 - AnchorOut)..(MaxViewportH + AnchorOut), h \in 1..MaxAnchorH}
SelectorSizes == {Size(AnchorW, h) : h \in 1..MaxListH}

NextPlacement ==
  \E contentSize \in ViewportSizes, parentRect \in AnchorRects,
     selectorSize \in SelectorSizes :
    RenderSelector(contentSize, parentRect, selectorSize)

SpecPlacement == InitPlacement /\ [][NextPlacement]_vars

\* The height of the list as DropdownSelector.render takes it.
ListHeight == Max(last.selectorSize.height, last.contentSize.height)
\* The list fits below the anchor, above the anchor.
FitsBelow == last.parentRect.y + last.parentRect.height + ListHeight < last.contentSize.height
FitsAbove == ListHeight <= last.parentRect.y
\* The room below the anchor and above it.
RoomBelow == last.contentSize.height - (last.parentRect.y + last.parentRect.height)
RoomAbove == last.parentRect.y

\* C19: the list is placed below the anchor if it fits below; otherwise above
\* if it fits above; if it fits on neither side, on the side with more room,
\* and below on an exact tie. Below is at the anchor's bottom edge, above ends
\* at the anchor's top edge.
C19_PlacementBelowAboveMoreRoom ==
  last.op = "selectorRender" =>
    /\ last.placement =
         (IF FitsBelow THEN "below"
          ELSE IF FitsAbove THEN "above"
          ELSE IF RoomAbove > RoomBelow THEN "above"
          ELSE "below")
    /\ last.placement = "below" =>
         last.rect.y = last.parentRect.y + last.parentRect.height
    /\ last.placement = "above" =>
         last.rect.y + last.rect.height = last.parentRect.y

\* The list fits on neither side of an anchor inside the viewport with as
\* much room above as below, and went below.
C19_Witness ==
  /\ last.op = "selectorRender"
  /\ ~FitsBelow /\ ~FitsAbove
  /\ RoomAbove = RoomBelow
  /\ RoomAbove > 0
  /\ last.placement = "below"

\* ---------------------------------------------------------------------
\* Text.render: inline style tokens, clipping and wrapping.

MaxTextW == 4

\* theme.text().merge(style): the pen usingPen starts with.
BaseStyle == [sgr |-> "base"]

\* Style.fromSGR(char): the style an escape sequence stands for.
fromSGR(char) == [sgr |-> char]

Tab == "\t"
CarriageReturn == "\r"
FormFeed == "\f"
VerticalTab == ""
NoBreakSpace == " "
\* The white space above U+00FF, by name.
UnicodeSpaces ==
  {"<U+1680>", "<U+2000>", "<U+2001>", "<U+2002>", "<U+2003>", "<U+2004>",
   "<U+2005>", "<U+2006>", "<U+2007>", "<U+2008>", "<U+2009>", "<U+200A>",
   "<U+2028>", "<U+2029>", "<U+202F>", "<U+205F>", "<U+3000>", "<U+FEFF>"}

\* char.match(/\s/): the white space of a JavaScript regular expression.
IsSpace(char) ==
  char \in {" ", Tab, NL, CarriageReturn, FormFeed, VerticalTab, NoBreakSpace}
             \cup UnicodeSpaces

NoPoint == [x |-> 0, y |-> 0, didWrap |-> FALSE, pen |-> BaseStyle, writes |-> <<>>]

\* A token that also moved the column.
TokenStepAdvances(st, char) == [st EXCEPT !.pen = fromSGR(char), !.x = @ + 1]

\* if (width === 0) { pen.replacePen(Style.fromSGR(char)); continue }
TokenStep(st, char) == [st EXCEPT !.pen = fromSGR(char)]

\* The body of the loop for a character that takes columns.
CharStep(st, char, wraps, contentWidth, visMinX, visMaxX) ==
  LET width == CharWidth(char)
      st1 == IF wraps /\ st.x >= contentWidth
               THEN [st EXCEPT !.didWrap = TRUE, !.x = 0, !.y = @ + 1]
               ELSE st
  IN IF st1.didWrap /\ IsSpace(char) THEN st1
     ELSE [st1 EXCEPT
             !.didWrap = FALSE,
             !.writes = IF st1.x >= visMinX /\ st1.x + width - 1 < visMaxX
                          THEN Append(@, [char |-> char, x |-> st1.x,
                                          y |-> st1.y, pen |-> st1.pen])
                          ELSE @,
             !.x = @ + width]

RECURSIVE RenderChars(_, _, _, _, _, _)
\* for (const char of unicode.printableChars(line))
RenderChars(chars, st, wraps, contentWidth, visMinX, visMaxX) ==
  IF chars = <<>> THEN st
  ELSE RenderChars(Tail(chars),
         IF CharWidth(Head(chars)) = 0
           THEN TokenStep(st, Head(chars))
           ELSE CharStep(st, Head(chars), wraps, contentWidth, visMinX, visMaxX),
         wraps, contentWidth, visMinX, visMaxX)

OffsetX(alignment, contentWidth, width) ==
  IF alignment = "left" THEN 0
  ELSE IF alignment = "center" THEN TruncDiv(contentWidth - width, 2)
  ELSE contentWidth - width

RECURSIVE RenderLines(_, _, _, _, _, _, _)
\* for (const [line, width] of lines)
RenderLines(ls, st, alignment, wraps, contentWidth, visMinX, visMaxX) ==
  IF ls = <<>> THEN st
  ELSE LET line == Head(ls)[1]
           width == Head(ls)[2]
           st1 == IF Len(line) = 0 THEN st
                  ELSE RenderChars(line,
                         [st EXCEPT !.didWrap = FALSE,
                                    !.x = OffsetX(alignment, contentWidth, width)],
                         wraps, contentWidth, visMinX, visMaxX)
       IN RenderLines(Tail(ls), [st1 EXCEPT !.y = @ + 1],
                      alignment, wraps, contentWidth, visMinX, visMaxX)

\* Text.render on a Text whose text is t: the write calls in order and the
\* pen at the end of the body of usingPen.
TextRender(t, alignment, wraps, contentWidth, visMinX, visMaxX) ==
  IF visMaxX <= visMinX THEN NoPoint
  ELSE RenderLines(updateLines(Some(t), None, "default").lines, NoPoint,
                   alignment, wraps, contentWidth, visMinX, visMaxX)

NoTextRender ==
  [op |-> "none", text |-> <<>>, alignment |-> "left", wraps |-> FALSE,
   contentWidth |-> 0, visMinX |-> 0, visMaxX |-> 0, writes |-> <<>>,
   pen |-> BaseStyle]

RenderText(t, alignment, wraps, contentWidth, visMinX, visMaxX) ==
  /\ LET r == TextRender(t, alignment, wraps, contentWidth, visMinX, visMaxX)
     IN last' = [op |-> "textRender", text |-> t, alignment |-> alignment,
                 wraps |-> wraps, contentWidth |-> contentWidth,
                 visMinX |-> visMinX, visMaxX |-> visMaxX,
                 writes |-> r.writes, pen |-> r.pen]
  /\ UNCHANGED <<viewVars, textVars, collapsibleVars, dropdownVars, accordionVars>>

InitTextRender ==
  /\ InitNoAccordion
  /\ InitViews([v \in Views |-> DefaultProps])
  /\ InitTexts(TreeTexts, TreeWraps)
  /\ InitCollapsibles([v \in CollapsibleViews |-> FALSE])
  /\ InitDropdown(<<>>, ChoicesAB, <<>>, FALSE)
  /\ last = NoTextRender

TokenTexts ==
  { <<"a", SgrRed, "b", "c">>,
    <<SgrRed, "a", NL, "b", "c">>,
    <<"a", "b", SgrRed, NL, SgrBold, NL, "c", "d">>,
    <<"a", "b", " ", SgrRed, "c", "d">>,
    <<"a", SgrRed, SgrBold, "b">>,
    <<"a", "b", Tab, "c">>,
    <<"a", "b", NoBreakSpace, CarriageReturn, "c">>,
    <<"a", "b", "c">>,
    <<SgrRed>> }
Alignments == {"left", "center", "right"}

ContentWidths == {2, MaxTextW}
VisibleMinXs == 0..1
VisibleMaxXs == {0, 1, MaxTextW}

NextTextRender ==
  \E t \in TokenTexts, alignment \in Alignments, wraps \in BOOLEAN,
     contentWidth \in ContentWidths, visMinX \in VisibleMinXs,
     visMaxX \in VisibleMaxXs :
    RenderText(t, alignment, wraps, contentWidth, visMinX, visMaxX)

SpecTextRender == InitTextRender /\ [][NextTextRender]_vars

\* The text with its tokens taken out.
WithoutTokens(t) == SelectSeq(t, LAMBDA c : c \notin StyleTokens)

\* The cells of a sequence of writes, pens left out.
Cells(ws) == [i \in DOMAIN ws |-> [char |-> ws[i].char, x |-> ws[i].x, y |-> ws[i].y]]

\* The texts above use every printable character once.
IndexOf(t, char) == CHOOSE i \in DOMAIN t : t[i] = char

\* The style of the last token before position i, the base style if none.
PenBefore(t, i) ==
  LET toks == {j \in 1..(i - 1) : t[j] \in StyleTokens}
  IN IF toks = {} THEN BaseStyle
     ELSE fromSGR(t[CHOOSE j \in toks : \A k \in toks : k <= j])

LineOf(t, i) == Cardinality({j \in 1..(i - 1) : t[j] = NL})

\* C20: a style token takes no column (every character is written at the
\* cell it has in the text without tokens), every written character
\* carries the style of the last token before it in the whole text, the
\* base style if there is none, whatever is clipped and on whatever line
\* the token stood.
C20_TokensTakeNoColumnAndSetPen ==
  last.op = "textRender" =>
    /\ Cells(last.writes) =
         Cells(TextRender(WithoutTokens(last.text), last.alignment, last.wraps,
                          last.contentWidth, last.visMinX, last.visMaxX).writes)
    /\ \A i \in DOMAIN last.writes :
         last.writes[i].pen = PenBefore(last.text, IndexOf(last.text, last.writes[i].char))

\* A token followed by a character that is clipped, and a character on a
\* later line written with that token's style.
C20_Witness ==
  /\ last.op = "textRender"
  /\ ~last.wraps
  /\ \E k \in 1..(Len(last.text) - 1) :
       /\ last.text[k] \in StyleTokens
       /\ CharWidth(last.text[k + 1]) > 0
       /\ \A i \in DOMAIN last.writes : last.writes[i].char # last.text[k + 1]
       /\ \E i \in DOMAIN last.writes :
            /\ last.writes[i].pen = fromSGR(last.text[k])
            /\ last.writes[i].y > LineOf(last.text, k)

\* ---------------------------------------------------------------------
\* View.theme over a tree whose views are moved between containers.

ThemeCount == 2

\* Theme.plain
PlainTheme == [kind |-> "theme", n |-> 0]
\* A theme given in the props (Theme[purpose] or a Theme object).
ThemeNamed(k) == [kind |-> "theme", n |-> k]

RECURSIVE ThemeOfParentFirst(_, _, _)
\* The accessor asking the parent before the view's own override.
ThemeOfParentFirst(par, ps, v) ==
  IF par[v] # 0 THEN ThemeOfParentFirst(par, ps, par[v])
  ELSE IF ps[v].theme # Unset THEN ps[v].theme
  ELSE PlainTheme

RECURSIVE ThemeOf(_, _, _)
\* get theme(): this.#theme ?? this.parent?.theme ?? Theme.plain
ThemeOf(par, ps, v) ==
  IF ps[v].theme # Unset THEN ps[v].theme
  ELSE IF par[v] # 0 THEN ThemeOf(par, ps, par[v])
  ELSE PlainTheme

NoThemeCall == [op |-> "none", view |-> 0, theme |-> PlainTheme, to |-> 0]

\* view.theme
GetTheme(v) ==
  /\ last' = [NoThemeCall EXCEPT !.op = "theme", !.view = v,
                                 !.theme = ThemeOf(parent, props, v)]
  /\ UNCHANGED <<viewVars, textVars, collapsibleVars, dropdownVars, accordionVars>>

\* p.add(v) for a container p, v.removeFromParent() for p = 0: the child's
\* parent reference is set, the containers' size caches are invalidated.
MoveTo(v, p) ==
  /\ p # v
  /\ p # parent[v]
  /\ p # 0 => v \notin Ancestors(p)
  /\ parent' = [parent EXCEPT ![v] = p]
  /\ LET c1 == IF parent[v] # 0
                 THEN InvalidateSize(prevSizeCache, invalidateParent, parent[v])
                 ELSE prevSizeCache
     IN prevSizeCache' = IF p # 0 THEN InvalidateSize(c1, invalidateParent, p) ELSE c1
  /\ last' = [NoThemeCall EXCEPT !.op = "moveTo", !.view = v, !.to = p]
  /\ UNCHANGED <<props, viewportContentSize, renderedContentSize, invalidateParent,
                 textVars, collapsibleVars, dropdownVars, accordionVars>>

ThemeChoices == {Unset} \cup {ThemeNamed(k) : k \in 1..ThemeCount}

InitTheme ==
  /\ InitNoAccordion
  /\ \E own \in [CollapsibleViews \cup {DeepText} -> ThemeChoices] :
       InitViews([v \in Views |->
                    IF v \in DOMAIN own THEN [DefaultProps EXCEPT !.theme = own[v]]
                    ELSE DefaultProps])
  /\ InitTexts(TreeTexts, TreeWraps)
  /\ InitCollapsibles([v \in CollapsibleViews |-> FALSE])
  /\ InitDropdown(<<>>, ChoicesAB, <<>>, FALSE)
  /\ last = NoThemeCall

NextTheme ==
  \/ \E v \in Views : GetTheme(v)
  \/ \E v \in Views, p \in CollapsibleViews \cup {0} : MoveTo(v, p)

SpecTheme == InitTheme /\ [][NextTheme]_vars

\* The ancestors of v that have a theme of their own.
Overriders(v) == {a \in Ancestors(v) : props[a].theme # Unset}

\* C21: view.theme is the view's own override if it has one, otherwise the
\* override of the nearest ancestor that has one, otherwise the plain
\* theme, along the chain of parents the view has now.
C21_ThemeIsNearestOverride ==
  last.op = "theme" =>
    LET v == last.view
    IN last.theme =
         IF props[v].theme # Unset THEN props[v].theme
         ELSE IF Overriders(v) = {} THEN PlainTheme
         ELSE props[CHOOSE a \in Overriders(v) :
                      \A b \in Overriders(v) \ {a} : b \in Ancestors(a)].theme

\* A view without an override that was moved to another container and now
\* has another theme than in the tree it was constructed in.
C21_Witness ==
  /\ last.op = "theme"
  /\ props[last.view].theme = Unset
  /\ parent[last.view] # TreeParent[last.view]
  /\ parent[last.view] # 0
  /\ ThemeOf(TreeParent, props, last.view) # PlainTheme
  /\ last.theme # ThemeOf(TreeParent, props, last.view)
  /\ last.theme # PlainTheme

\* ---------------------------------------------------------------------
\* util.ts: leftPad, rightPad, centerPad.

MaxPadLength == 5

\* ' '.repeat(n)
Spaces(n) == [i \in 1..n |-> " "]

\* Each of the three pads line by line when str has several lines:
\* lines.map(line => pad(line, length)).join('\n').
leftPad(str, length) ==
  LET one(line) == IF lineWidth(line) >= length THEN line
                   ELSE Spaces(length - lineWidth(line)) \o line
      ls == Split(str)
  IN IF Len(ls) > 1 THEN Join([i \in 1..Len(ls) |-> one(ls[i])], <<NL>>)
     ELSE one(str)

rightPad(str, length) ==
  LET one(line) == IF lineWidth(line) >= length THEN line
                   ELSE line \o Spaces(length - lineWidth(line))
      ls == Split(str)
  IN IF Len(ls) > 1 THEN Join([i \in 1..Len(ls) |-> one(ls[i])], <<NL>>)
     ELSE one(str)

\* The right side rounded down as the left side is.
RightSpacesTruncated(d) == TruncDiv(d, 2)

\* ~~((length - width) / 2 + 0.5)
RightSpaces(d) == TruncDiv(d + 1, 2)

centerPad(str, length) ==
  LET one(line) ==
        IF lineWidth(line) >= length THEN line
        ELSE Spaces(TruncDiv(length - lineWidth(line), 2)) \o line
               \o Spaces(RightSpaces(length - lineWidth(line)))
      ls == Split(str)
  IN IF Len(ls) > 1 THEN Join([i \in 1..Len(ls) |-> one(ls[i])], <<NL>>)
     ELSE one(str)

NoPad == [op |-> "none", str |-> <<>>, length |-> 0, result |-> <<>>]

Pad(op, str, length) ==
  /\ last' = [op |-> op, str |-> str, length |-> length,
              result |-> CASE op = "leftPad" -> leftPad(str, length)
                           [] op = "rightPad" -> rightPad(str, length)
                           [] OTHER -> centerPad(str, length)]
  /\ UNCHANGED <<viewVars, textVars, collapsibleVars, dropdownVars, accordionVars>>

PadStrings ==
  { <<>>, <<"a">>, <<"a", "b", "c">>, <<"a", NL, "b", "c", "d">>,
    <<WideChar, "a">>, <<SgrRed, "a">>, <<"a", NL>>, <<NL, WideChar, WideChar>>,
    <<" ", "a">> }
PadOps == {"leftPad", "rightPad", "centerPad"}

InitPad ==
  /\ InitNoAccordion
  /\ InitViews([v \in Views |-> DefaultProps])
  /\ InitTexts(TreeTexts, TreeWraps)
  /\ InitCollapsibles([v \in CollapsibleViews |-> FALSE])
  /\ InitDropdown(<<>>, ChoicesAB, <<>>, FALSE)
  /\ last = NoPad

NextPad ==
  \E op \in PadOps, str \in PadStrings, length \in (0 - 1)..MaxPadLength :
    Pad(op, str, length)

SpecPad == InitPad /\ [][NextPad]_vars

\* The columns a line is short of length.
Missing(line, length) == Max(0, length - lineWidth(line))

\* C22: every line of the result is the line of the input with spaces
\* added up to the display width length: all on the left (leftPad), all
\* on the right (rightPad), or floor(d / 2) on the left and the other
\* ceil(d / 2) on the right (centerPad); a line at least length wide is
\* unchanged, and the result's width is max(width(line), length).
C22_PadsEveryLineToLength ==
  last.op \in PadOps =>
    LET ins == Split(last.str)
        outs == Split(last.result)
    IN /\ Len(outs) = Len(ins)
       /\ \A i \in 1..Len(ins) :
            LET d == Missing(ins[i], last.length)
                l == CASE last.op = "leftPad" -> d
                       [] last.op = "rightPad" -> 0
                       [] OTHER -> d \div 2
            IN /\ outs[i] = Spaces(l) \o ins[i] \o Spaces(d - l)
               /\ lineWidth(outs[i]) = Max(lineWidth(ins[i]), last.length)
               /\ lineWidth(ins[i]) >= last.length => outs[i] = ins[i]

\* centerPad of two lines, one already wide enough, the other short by an
\* odd number of columns.
C22_Witness ==
  /\ last.op = "centerPad"
  /\ Len(Split(last.str)) = 2
  /\ \E i, j \in 1..2 :
       /\ lineWidth(Split(last.str)[i]) >= last.length
       /\ Missing(Split(last.str)[j], last.length) % 2 = 1
       /\ Missing(Split(last.str)[j], last.length) > 1

\* ---------------------------------------------------------------------
\* The open sections of an Accordion.

\* The sections of the Accordion that are open.
OpenSections == {i \in 1..Len(sections) : isOpen[sections[i]]}

\* C23: in an Accordion with multiple = false at most one of its sections
\* is open, whatever sequence of addSection, clicks, open(), close() and
\* assignments to isOpen led to the state.
C23_AtMostOneSectionOpen ==
  ~accordionMultiple => Cardinality(OpenSections) <= 1

\* Both sections are in a multiple = false Accordion, one was open, and a
\* click or an assignment opened the other one.
C23_Witness ==
  /\ ~accordionMultiple
  /\ Len(sections) = Cardinality(SectionIds)
  /\ last.op \in {"sectionReceiveMouse", "isOpen="}
  /\ last.changed
  /\ isOpen[last.section]
  /\ \E s \in SectionIds \ {last.section} : last.wasOpen[s] /\ ~isOpen[s]

\* accordion.add(section): Container.add sets the parent reference and
\* invalidates the Accordion's size cache; the section keeps its onClick.
ContainerAdd(s) ==
  /\ \A i \in 1..Len(sections) : sections[i] # s
  /\ sections' = Append(sections, s)
  /\ accordionCache' = EmptyCache
  /\ needsRender' = TRUE
  /\ last' = [NoSectionCall EXCEPT !.op = "add", !.section = s, !.wasOpen = isOpen]
  /\ UNCHANGED <<accordionMultiple, isOpen, onClick, currentViewHeight,
                 actualViewHeight, sectionCache, sectionRect, tickRegistered,
                 frameSize, accordionContentSize, propsOnClick, toggles, titleText>>
  /\ UNCHANGED notAccordion

\* What the props of an Accordion hold for multiple.
MultipleChoices == {"undefined", "true", "false"}

\* Accordion.update(props), through #update: multiple ?? false.
AccordionUpdate(m) ==
  /\ toggles < MaxToggles
  /\ accordionMultiple' = (m = "true")
  /\ toggles' = toggles + 1
  /\ needsRender' = TRUE
  /\ last' = [NoSectionCall EXCEPT !.op = "accordionUpdate", !.wasOpen = isOpen]
  /\ UNCHANGED <<sections, isOpen, onClick, accordionCache, currentViewHeight,
                 actualViewHeight, sectionCache, sectionRect, tickRegistered,
                 frameSize, accordionContentSize, propsOnClick, titleText>>
  /\ UNCHANGED notAccordion

NextAttach ==
  \/ \E s \in SectionIds : AddSection(s)
  \/ \E s \in SectionIds : ContainerAdd(s)
  \/ AccordionRender
  \/ \E s \in SectionIds : SectionReceiveMouse(s, "click")
  \/ \E s \in SectionIds, value \in BOOLEAN : SetIsOpen(s, value)
  \/ \E s \in SectionIds, p \in SectionPropsChoices : SectionUpdate(s, p)
  \/ \E m \in MultipleChoices : AccordionUpdate(m)

SpecAttach == InitSectionSpec /\ [][NextAttach]_vars

\* C24: no two different sections of a multiple = false Accordion are open,
\* also when sections were attached with add(), reconfigured with
\* AccordionSection.update(props), or the Accordion's multiple was changed
\* or omitted by Accordion.update(props).
C24_AtMostOneOpenHoweverAttached ==
  ~accordionMultiple =>
    \A i, j \in 1..Len(sections) :
      isOpen[sections[i]] /\ isOpen[sections[j]] => i = j

\* ---------------------------------------------------------------------
\* The selected rows of a DropdownSelector under changing choices.

ChoicesB == <<[text |-> <<"b">>, value |-> 2]>>
ChoicesCAB == <<[text |-> <<"c">>, value |-> 3], [text |-> <<"a">>, value |-> 1],
                [text |-> <<"b">>, value |-> 2]>>
ChoicesTwice == <<[text |-> <<"a">>, value |-> 1], [text |-> <<"A">>, value |-> 1]>>
SelectionChoices == {ChoicesAB, ChoicesB, ChoicesCAB, ChoicesTwice}

InitSelection ==
  /\ InitNoAccordion
  /\ InitViews([v \in Views |-> DefaultProps])
  /\ InitTexts(TreeTexts, TreeWraps)
  /\ InitCollapsibles([v \in CollapsibleViews |-> FALSE])
  /\ \E mult \in BOOLEAN, cs \in SelectionChoices, sel \in {<<>>, <<1>>, <<MaxValue>>} :
       InitDropdown(<<>>, cs, sel, mult)
  /\ last = NoCall

NextSelection ==
  \/ \E row \in 0..MaxValue : RowClick(row)
  \/ \E value \in BOOLEAN : CheckAll(value)
  \/ \E sel \in SelectedInputs(TRUE) : SetSelected(sel)
  \/ \E cs \in SelectionChoices : SetChoices(cs)

SpecSelection == InitSelection /\ [][NextSelection]_vars

\* Every selected row is an index into the choices.
ValidRows == \A i \in 1..Len(selected) : selected[i] \in 0..(Len(choices) - 1)

\* The values of the selected rows, as a set.
SelectedValueSet == {selectedValues[i] : i \in 1..Len(selectedValues)}

\* C25: every selected row is a valid index into the current choices after
\* construction and after every row click, select-all or select-none,
\* assignment to selected and assignment to choices; an assignment to
\* choices keeps exactly the selected values that occur in the new choices.
C25_SelectedRowsAreValidIndexes ==
  /\ ValidRows
  /\ [][/\ ValidRows'
        /\ last'.op = "choices=" =>
             SelectedValueSet' =
               SelectedValueSet \cap {choices'[i].value : i \in 1..Len(choices')}]_vars

\* An assignment of a shorter list of choices that moved the one selected
\* value that is kept to another row and dropped another.
C25_Witness ==
  /\ last.op = "choices="
  /\ last.changed
  /\ choices = SplitChoices(ChoicesB)
  /\ selected = <<0>>

\* C26: in a multi-select Dropdown the 'Select all' checkbox is checked
\* exactly when every choice is selected.
C26_SelectAllCheckedIffAllSelected ==
  multiple => (isChecked <=> Len(selected) = Len(choices))

\* ---------------------------------------------------------------------
\* DropdownSelector.selectedText with ten or more choices.

ManyChoices == 11
MaxChosenRows == 2

Letters == <<"a", "b", "c", "d", "e", "f", "g", "h", "i", "j", "k", "l", "m", "n">>
ChoicesMany == [i \in 1..ManyChoices |-> [text |-> <<Letters[i]>>, value |-> i]]

InitManyChoices ==
  /\ InitNoAccordion
  /\ InitViews([v \in Views |-> DefaultProps])
  /\ InitTexts(TreeTexts, TreeWraps)
  /\ InitCollapsibles([v \in CollapsibleViews |-> FALSE])
  /\ InitDropdown(<<>>, ChoicesMany, <<>>, TRUE)
  /\ last = NoCall

NextManyChoices ==
  \/ \E row \in 0..(ManyChoices - 1) :
       /\ Len(selected) < MaxChosenRows \/ \E i \in 1..Len(selected) : selected[i] = row
       /\ RowClick(row)
  \/ \E value \in BOOLEAN : CheckAll(value)

SpecManyChoices == InitManyChoices /\ [][NextManyChoices]_vars

\* The selected rows in ascending numeric order.
AscendingRows ==
  LET rows == {selected[i] : i \in 1..Len(selected)}
  IN [i \in 1..Cardinality(rows) |->
        CHOOSE r \in rows : Cardinality({q \in rows : q < r}) = i - 1]

\* C27: with several choices selected, selectedText is the one line of the
\* selected choices' labels, joined by ", ", in ascending numeric order of
\* their rows, whatever the order they were selected in.
C27_SelectedTextInAscendingRowOrder ==
  Len(selected) > 1 =>
    selectedText.lines =
      <<Join([i \in 1..Len(AscendingRows) |->
                Join(choices[AscendingRows[i] + 1].lines, <<" ">>)],
             <<",", " ">>)>>

\* C28: for an anchor rectangle inside the viewport the rectangle the
\* selector renders its list in lies vertically inside the viewport:
\* 0 <= y and y + height <= viewport.contentSize.height.
C28_ListRectInsideViewport ==
  (/\ last.op = "selectorRender"
   /\ RectMinY(last.parentRect) >= 0
   /\ RectMaxY(last.parentRect) <= last.contentSize.height) =>
    /\ RectMinY(last.rect) >= 0
    /\ RectMaxY(last.rect) <= last.contentSize.height

\* ---------------------------------------------------------------------
\* A wrapping Text: the height it asks for and the rows it renders.

MaxLineLength == 8

\* A line of n single-width characters.
XLine(n) == [i \in 1..n |-> "x"]

WrapTexts ==
  {XLine(n) : n \in 0..MaxLineLength}
    \cup {XLine(n) \o <<NL>> \o XLine(m) : n \in 0..MaxTextW, m \in 0..MaxTextW}

NoMeasure == [op |-> "none", text |-> <<>>, width |-> 0, natural |-> 0, rows |-> 0]

\* A Text with wrap: true and text t: naturalSize(Size(a, h)).height, and the
\* row below the last one render reached in a viewport of content width a
\* that is wholly visible.
MeasureText(t, a) ==
  /\ last' = [op |-> "measureText", text |-> t, width |-> a,
              natural |-> TextReduce(updateLines(Some(t), None, "default").lines,
                                     TRUE, Size(a, MaxLineLength), SizeZero).height,
              rows |-> TextRender(t, "left", TRUE, a, 0, a).y]
  /\ UNCHANGED <<viewVars, textVars, collapsibleVars, dropdownVars, accordionVars>>

InitMeasure ==
  /\ InitNoAccordion
  /\ InitViews([v \in Views |-> DefaultProps])
  /\ InitTexts(TreeTexts, TreeWraps)
  /\ InitCollapsibles([v \in CollapsibleViews |-> FALSE])
  /\ InitDropdown(<<>>, ChoicesAB, <<>>, FALSE)
  /\ last = NoMeasure

NextMeasure == \E t \in WrapTexts, a \in 1..MaxTextW : MeasureText(t, a)

SpecMeasure == InitMeasure /\ [][NextMeasure]_vars

RECURSIVE RowsOf(_, _)
\* The rows lines of single-width characters take at width a: max(1, ceil(w / a)) each.
RowsOf(ls, a) ==
  IF ls = <<>> THEN 0
  ELSE Max(1, (Head(ls)[2] + a - 1) \div a) + RowsOf(Tail(ls), a)

\* C29: for a wrapping Text of single-width characters the height
\* naturalSize reports at available width a equals the number of rows
\* render occupies in a viewport of content width a, max(1, ceil(w / a))
\* for a line of width w.
C29_NaturalHeightIsRenderedRows ==
  last.op = "measureText" =>
    /\ last.rows = RowsOf(updateLines(Some(last.text), None, "default").lines, last.width)
    /\ last.natural = last.rows

\* The content area View.#renderWrap computed in the last render.
RenderedArea == RenderContentSize(props[last.view], last.avail)

\* C30: a view whose width and height are 'natural', rendered into a
\* viewport that leaves it a content area of at least one cell, gets a
\* content rectangle of exactly the subclass's natural size for that area;
\* padding and offset are not added to it.
C30_NaturalRectIsSubclassNaturalSize ==
  (/\ last.op = "render"
   /\ last.view = WrapView
   /\ props[WrapView].width = Natural
   /\ props[WrapView].height = Natural
   /\ RenderedArea.width >= 1
   /\ RenderedArea.height >= 1) =>
    LET size == TextNaturalSize(WrapView, Size(RenderedArea.width, RenderedArea.height))
    IN /\ renderedContentSize[WrapView].width = size.width
       /\ renderedContentSize[WrapView].height = size.height

\* ---------------------------------------------------------------------
\* View.moveToScreen and the hooks didMount / didUnmount, as a subclass
\* that records every call of its hooks sees them.

ScreenCount == 2
MaxHookCalls == 6

Screens == 1..ScreenCount
\* The views that are moved between screens.
MountViews == TextViews

\* One call of a lifecycle hook and its argument.
Hook(name, screen) == [hook |-> name, screen |-> screen]

\* The hooks called with didMount ahead of didUnmount.
MoveToScreenHooksMountFirst(prev, screen) ==
  IF prev = screen THEN <<>>
  ELSE IF screen # NoScreen
    THEN <<Hook("didMount", screen)>>
         \o (IF prev # NoScreen THEN <<Hook("didUnmount", prev)>> ELSE <<>>)
    ELSE <<Hook("didUnmount", prev)>>

\* The hooks moveToScreen(screen) calls, in order, on a view whose #screen
\* is prev.
MoveToScreenHooks(prev, screen) ==
  IF prev = screen THEN <<>>
  ELSE IF screen # NoScreen
    THEN (IF prev # NoScreen THEN <<Hook("didUnmount", prev)>> ELSE <<>>)
         \o <<Hook("didMount", screen)>>
    ELSE <<Hook("didUnmount", prev)>>

NoScreenCall ==
  [op |-> "none", view |-> 0, screen |-> NoScreen, hooks |-> <<>>,
   log |-> [v \in MountViews |-> <<>>]]

\* view.moveToScreen(screen)
moveToScreen(v, screen) ==
  /\ Len(last.log[v]) + 2 <= MaxHookCalls
  /\ LET prev == props[v].screen
         hooks == MoveToScreenHooks(prev, screen)
     IN /\ props' = [props EXCEPT ![v].screen = IF prev # screen THEN screen ELSE prev]
        /\ last' = [op |-> "moveToScreen", view |-> v, screen |-> screen,
                    hooks |-> hooks,
                    log |-> [last.log EXCEPT ![v] = @ \o hooks]]
  /\ UNCHANGED <<parent, prevSizeCache, viewportContentSize, renderedContentSize,
                 invalidateParent, textVars, collapsibleVars, dropdownVars,
                 accordionVars>>

InitScreen ==
  /\ InitNoAccordion
  /\ InitViews([v \in Views |-> DefaultProps])
  /\ InitTexts(TreeTexts, TreeWraps)
  /\ InitCollapsibles([v \in CollapsibleViews |-> FALSE])
  /\ InitDropdown(<<>>, ChoicesAB, <<>>, FALSE)
  /\ last = NoScreenCall

NextScreen ==
  \E v \in MountViews, screen \in Screens \cup {NoScreen} : moveToScreen(v, screen)

SpecScreen == InitScreen /\ [][NextScreen]_vars

\* The hooks a view has seen alternate, starting with didMount; each
\* didUnmount is for the screen of the didMount just before it; the view's
\* screen is the one mounted last and not unmounted since, or null.
HooksAlternate ==
  \A v \in MountViews :
    LET l == last.log[v]
    IN /\ \A i \in DOMAIN l :
            IF l[i].hook = "didMount"
              THEN i = 1 \/ l[i - 1].hook = "didUnmount"
              ELSE i > 1 /\ l[i - 1] = Hook("didMount", l[i].screen)
       /\ props[v].screen = IF l = <<>> \/ l[Len(l)].hook = "didUnmount"
                              THEN NoScreen
                              ELSE l[Len(l)].screen

\* What one call of moveToScreen does to the view it is called on.
MoveCallsHooks ==
  last'.op = "moveToScreen" =>
    LET v == last'.view
        s == last'.screen
        prev == props[v].screen
        h == last'.hooks
    IN /\ props'[v].screen = s
       /\ prev = s => h = <<>>
       /\ \A i \in DOMAIN h : h[i].hook = "didMount" => h[i].screen = s /\ prev # s
       /\ (prev # NoScreen /\ s # NoScreen /\ prev # s) =>
            h = <<Hook("didUnmount", prev), Hook("didMount", s)>>
       /\ \A w \in MountViews \ {v} :
            /\ props'[w].screen = props[w].screen
            /\ last'.log[w] = last.log[w]

\* C31: over any sequence of moveToScreen calls the hooks of a view
\* alternate: didMount(s) is called only when the view's screen becomes
\* s, every didUnmount(s) is for the screen of the most recent didMount,
\* a move from s1 to s2 calls didUnmount(s1) and then didMount(s2), a
\* move to the screen the view is on calls nothing, and view.screen is the
\* screen mounted last and not unmounted since (or null).
C31_HooksStrictlyAlternate == HooksAlternate /\ [][HooksAlternate' /\ MoveCallsHooks]_vars

\* A view that was mounted, unmounted, mounted again, asked to move to the
\* screen it is on, and then moved straight to the other screen.
C31_Witness ==
  /\ last.op = "moveToScreen"
  /\ Len(last.hooks) = 2
  /\ Len(last.log[last.view]) >= 5
  /\ \E w \in MountViews \ {last.view} : props[w].screen \notin {NoScreen, last.screen}

====
